---------------------------- MODULE Spec2Model ----------------------------
(***************************************************************************)
(* Retrieval engine of the dungeon helper (src/lib/rag.ts) with the       *)
(* similarity search wrapper (lib/vector-store.ts) and the embedding      *)
(* wrapper (src/lib/embeddings.ts).                                       *)
(*                                                                         *)
(* Conventions.  Strings the code searches with String.includes are       *)
(* sequences of one-character strings; strings the code only compares     *)
(* for equality (collection names, encounter types) are TLA+ strings.     *)
(* Scores are counted in hundredths (0.8 is 80, 1.0 is 100).              *)
(* An optional number that is undefined is the value Undefined; a         *)
(* collection filter that is absent is the empty string (both are falsy   *)
(* in the code's tests).                                                   *)
(***************************************************************************)
EXTENDS Integers, Sequences, FiniteSets, TLC

Undefined == 0 - 1

NoFilter == ""

(***************************************************************************)
(* Bounds of the model.                                                    *)
(***************************************************************************)
\* largest topK a caller passes (0 and "omitted" are always tried)
MaxTopK == 2

\* longest list of matches the similarity search provider answers with
MaxMatches == 2

\* longest result list handed to buildContext
MaxResults == 3

\* callers of loadMechanicStore that may be in flight together
MaxCallers == 3

\* longest sequence of registerMechanic calls followed
MaxRegistrations == 4

\* largest maxRequests a caller of checkRateLimit configures
MaxLimit == 2

\* last tick of the clock
MaxTime == 4

\* longest sequence of events the generation provider streams for one answer
MaxEvents == 2

(***************************************************************************)
(* Program constants.                                                      *)
(***************************************************************************)
DefaultTopK == 10

FilteredFactor == 4

UnfilteredFactor == 2

DefaultScore == 50

PositionBoost == 80

FlowBoost == 30

MaxScore == 100

(***************************************************************************)
(* String.prototype.toLowerCase and String.prototype.includes              *)
(***************************************************************************)
Uppers == <<"A","B","C","D","E","F","G","H","I","J","K","L","M","N","O","P","Q","R","S","T","U","V","W","X","Y","Z">>

Lowers == <<"a","b","c","d","e","f","g","h","i","j","k","l","m","n","o","p","q","r","s","t","u","v","w","x","y","z">>

toLowerCase(s) ==
    [i \in 1..Len(s) |->
        IF \E k \in 1..Len(Uppers) : Uppers[k] = s[i]
        THEN Lowers[CHOOSE k \in 1..Len(Uppers) : Uppers[k] = s[i]]
        ELSE s[i]]

includes(s, t) ==
    \E i \in 1..(Len(s) - Len(t) + 1) : SubSeq(s, i, i + Len(t) - 1) = t

Min(a, b) == IF a <= b THEN a ELSE b

\* obj.key, with the value that stands for undefined when the key is missing
get(obj, key, absent) == IF key \in DOMAIN obj THEN obj[key] ELSE absent

(***************************************************************************)
(* isEncounterFlowMechanic                                                 *)
(***************************************************************************)
flowKeywords ==
    { <<"f","l","o","w">>,
      <<"s","t","r","a","t","e","g","y">>,
      <<"p","r","o","g","r","e","s","s","i","o","n">>,
      <<"o","v","e","r","a","l","l"," ","e","n","c","o","u","n","t","e","r">> }

isEncounterFlowMechanic(name) ==
    \E keyword \in flowKeywords : includes(toLowerCase(name), keyword)

(***************************************************************************)
(* detectEncounterPosition.  isBossQuery is only ever tested for truth or *)
(* compared with true, so the undefined of "no position" is FALSE here.   *)
(***************************************************************************)
FinalBoss == <<"f","i","n","a","l"," ","b","o","s","s">>

LastBoss == <<"l","a","s","t"," ","b","o","s","s">>

FinalEncounter == <<"f","i","n","a","l"," ","e","n","c","o","u","n","t","e","r">>

LastEncounter == <<"l","a","s","t"," ","e","n","c","o","u","n","t","e","r">>

FirstBoss == <<"f","i","r","s","t"," ","b","o","s","s">>

FirstBossNum == <<"1","s","t"," ","b","o","s","s">>

FirstEncounter == <<"f","i","r","s","t"," ","e","n","c","o","u","n","t","e","r">>

FirstEncounterNum == <<"1","s","t"," ","e","n","c","o","u","n","t","e","r">>

SecondBoss == <<"s","e","c","o","n","d"," ","b","o","s","s">>

SecondBossNum == <<"2","n","d"," ","b","o","s","s">>

SecondEncounter == <<"s","e","c","o","n","d"," ","e","n","c","o","u","n","t","e","r">>

SecondEncounterNum == <<"2","n","d"," ","e","n","c","o","u","n","t","e","r">>

ThirdBoss == <<"t","h","i","r","d"," ","b","o","s","s">>

ThirdBossNum == <<"3","r","d"," ","b","o","s","s">>

ThirdEncounter == <<"t","h","i","r","d"," ","e","n","c","o","u","n","t","e","r">>

ThirdEncounterNum == <<"3","r","d"," ","e","n","c","o","u","n","t","e","r">>

NoPosition == [position |-> "none", orderNumber |-> Undefined, isBossQuery |-> FALSE]

PositionSpec(p, n, b) == [position |-> p, orderNumber |-> n, isBossQuery |-> b]

\* mutant: every boss phrase is tested before every encounter phrase
detectEncounterPositionBossFirst(query) ==
    LET q == toLowerCase(query) IN
    IF includes(q, FinalBoss) \/ includes(q, LastBoss)
        THEN PositionSpec("final", Undefined, TRUE)
    ELSE IF includes(q, FirstBoss) \/ includes(q, FirstBossNum)
        THEN PositionSpec("first", Undefined, TRUE)
    ELSE IF includes(q, SecondBoss) \/ includes(q, SecondBossNum)
        THEN PositionSpec("second", Undefined, TRUE)
    ELSE IF includes(q, ThirdBoss) \/ includes(q, ThirdBossNum)
        THEN PositionSpec("third", Undefined, TRUE)
    ELSE IF includes(q, FinalEncounter) \/ includes(q, LastEncounter)
        THEN PositionSpec("final", Undefined, FALSE)
    ELSE IF includes(q, FirstEncounter) \/ includes(q, FirstEncounterNum)
        THEN PositionSpec("first", 1, FALSE)
    ELSE IF includes(q, SecondEncounter) \/ includes(q, SecondEncounterNum)
        THEN PositionSpec("second", 2, FALSE)
    ELSE IF includes(q, ThirdEncounter) \/ includes(q, ThirdEncounterNum)
        THEN PositionSpec("third", 3, FALSE)
    ELSE NoPosition

detectEncounterPosition(query) ==
    LET q == toLowerCase(query) IN
    IF includes(q, FinalBoss) \/ includes(q, LastBoss)
        THEN PositionSpec("final", Undefined, TRUE)
    ELSE IF includes(q, FinalEncounter) \/ includes(q, LastEncounter)
        THEN PositionSpec("final", Undefined, FALSE)
    ELSE IF includes(q, FirstBoss) \/ includes(q, FirstBossNum)
        THEN PositionSpec("first", Undefined, TRUE)
    ELSE IF includes(q, FirstEncounter) \/ includes(q, FirstEncounterNum)
        THEN PositionSpec("first", 1, FALSE)
    ELSE IF includes(q, SecondBoss) \/ includes(q, SecondBossNum)
        THEN PositionSpec("second", Undefined, TRUE)
    ELSE IF includes(q, SecondEncounter) \/ includes(q, SecondEncounterNum)
        THEN PositionSpec("second", 2, FALSE)
    ELSE IF includes(q, ThirdBoss) \/ includes(q, ThirdBossNum)
        THEN PositionSpec("third", Undefined, TRUE)
    ELSE IF includes(q, ThirdEncounter) \/ includes(q, ThirdEncounterNum)
        THEN PositionSpec("third", 3, FALSE)
    ELSE NoPosition

(***************************************************************************)
(* extractDungeonName.  The list entries are searched as character         *)
(* sequences; the display names are only handed on, so they are strings.   *)
(* Undefined as a return value is the empty string (no display name is     *)
(* empty).                                                                 *)
(***************************************************************************)
dungeonNames ==
    << <<"w","a","r","l","o","r","d","'","s"," ","r","u","i","n">>,
       <<"w","a","r","l","o","r","d","s"," ","r","u","i","n">>,
       <<"d","u","a","l","i","t","y">>,
       <<"v","e","s","p","e","r","'","s"," ","h","o","s","t">>,
       <<"v","e","s","p","e","r","s"," ","h","o","s","t">>,
       <<"s","u","n","d","e","r","e","d"," ","d","o","c","t","r","i","n","e">>,
       <<"e","q","u","i","l","i","b","r","i","u","m">> >>

\* the lookup table, by position of the key in dungeonNames (every entry of
\* the list is a key, so the "|| name" default is never taken)
canonicalNames ==
    << "Warlord's Ruin", "Warlord's Ruin", "Duality", "Vesper's Host", "Vesper's Host",
       "Sundered Doctrine", "Equilibrium" >>

NoName == ""

\* mutant: the last matching entry of the list wins
extractDungeonNameLastMatch(query) ==
    LET queryLower == toLowerCase(query)
        hits == { i \in DOMAIN dungeonNames : includes(queryLower, toLowerCase(dungeonNames[i])) }
    IN  IF hits = {} THEN NoName
        ELSE canonicalNames[CHOOSE i \in hits : \A j \in hits : j <= i]

\* the loop returns at the first entry the query contains
extractDungeonName(query) ==
    LET queryLower == toLowerCase(query)
        hits == { i \in DOMAIN dungeonNames : includes(queryLower, toLowerCase(dungeonNames[i])) }
    IN  IF hits = {} THEN NoName
        ELSE canonicalNames[CHOOSE i \in hits : \A j \in hits : i <= j]

\* the redundant flag of retrieveRelevantMechanics
isFinalBossQueryOf(query) ==
    LET q == toLowerCase(query) IN
    includes(q, FinalBoss) \/ includes(q, LastBoss) \/ includes(q, FinalEncounter)


(***************************************************************************)
(* The corpus: the mechanics that exist, each with its encounter and its  *)
(* collection (the documents under data/mechanics and the items an ingest *)
(* request carries).  Mechanics 1 and 2 share one boss encounter.         *)
(***************************************************************************)
NameEncounterFlow == <<"E","n","c","o","u","n","t","e","r"," ","F","l","o","w">>

NameBellPuzzle == <<"B","e","l","l"," ","P","u","z","z","l","e">>

NameBossStrategy == <<"B","o","s","s"," ","S","T","R","A","T","E","G","Y">>

NameVaultSymbols == <<"V","a","u","l","t"," ","S","y","m","b","o","l","s">>

NamePlates == <<"P","l","a","t","e","s">>

NameOpeningJump == <<"O","p","e","n","i","n","g"," ","J","u","m","p">>

Triple(id, name, encId, encType, encOrder, dungeon) ==
    [ mechanic    |-> [id |-> id, name |-> name],
      encounter   |-> [id |-> encId, type |-> encType, order |-> encOrder],
      dungeonRaid |-> [name |-> dungeon] ]

Corpus ==
    << Triple(1, NameEncounterFlow, "duality-gahlran", "boss", 2, "Duality"),
       Triple(2, NameBellPuzzle, "duality-gahlran", "boss", 2, "Duality"),
       Triple(3, NameBossStrategy, "duality-caiatl", "boss", 5, "Duality"),
       Triple(4, NameVaultSymbols, "duality-vault", "encounter", 6, "Duality"),
       Triple(5, NamePlates, "equilibrium-boss", "boss", 2, "Equilibrium"),
       Triple(6, NameOpeningJump, "duality-opening", "opening", Undefined, "Duality") >>

MechIds == DOMAIN Corpus

\* the documents loadMechanicStore finds under data/mechanics, by mechanic id
DataFiles == { {1, 2, 3, 6}, {5} }

(***************************************************************************)
(* The Mechanic Store: a Map, modelled as the sequence of its entries in  *)
(* insertion order, with unique mechanic ids.                             *)
(***************************************************************************)
storeHas(store, id) == \E i \in DOMAIN store : store[i].mechanic.id = id

storeGet(store, id) == store[CHOOSE i \in DOMAIN store : store[i].mechanic.id = id]

\* mutant: every call adds an entry
registerMechanicAppend(store, triple) == Append(store, triple)

\* mutant: an id that is already stored keeps its first entry
registerMechanicKeepFirst(store, triple) ==
    IF storeHas(store, triple.mechanic.id) THEN store ELSE Append(store, triple)

\* Map.prototype.set: an existing key keeps its place
registerMechanic(store, triple) ==
    IF storeHas(store, triple.mechanic.id)
    THEN [i \in DOMAIN store |->
            IF store[i].mechanic.id = triple.mechanic.id THEN triple ELSE store[i]]
    ELSE Append(store, triple)

RECURSIVE registerAll(_, _)
registerAll(store, triples) ==
    IF triples = <<>> THEN store
    ELSE registerAll(registerMechanic(store, Head(triples)), Tail(triples))

\* the triples of a set of documents, in file order
TriplesOf(ids) == SelectSeq(Corpus, LAMBDA t : t.mechanic.id \in ids)

\* the documents in the order readdirSync lists them
DataFileList == << {1, 2, 3, 6}, {5} >>

\* mutant: the first document that fails ends the loop, before the flag is set
RECURSIVE loadFilesAbortOnError(_, _, _)
loadFilesAbortOnError(acc, files, valid) ==
    IF files = <<>> THEN acc
    ELSE IF Head(files) \in valid
         THEN loadFilesAbortOnError(
                  [ store     |-> registerAll(acc.store, TriplesOf(Head(files))),
                    count     |-> acc.count + Len(TriplesOf(Head(files))),
                    completed |-> acc.completed ],
                  Tail(files), valid)
         ELSE [acc EXCEPT !.completed = FALSE]

\* the loop over the documents: a document that parses and validates has every
\* mechanic registered, a document that fails is logged and skipped (parse and
\* validation come before its first registerMechanic); count is the number of
\* registerMechanic calls, completed whether the statement after the loop is
\* reached
RECURSIVE loadFiles(_, _, _)
loadFiles(acc, files, valid) ==
    IF files = <<>> THEN acc
    ELSE loadFiles(
             IF Head(files) \in valid
             THEN [ store     |-> registerAll(acc.store, TriplesOf(Head(files))),
                    count     |-> acc.count + Len(TriplesOf(Head(files))),
                    completed |-> acc.completed ]
             ELSE acc,
             Tail(files), valid)

(***************************************************************************)
(* Vector metadata and the similarity search provider                     *)
(***************************************************************************)
MetadataOf(t) ==
    [ mechanicId      |-> t.mechanic.id,
      mechanicName    |-> t.mechanic.name,
      encounterId     |-> t.encounter.id,
      encounterOrder  |-> t.encounter.order,
      encounterType   |-> t.encounter.type,
      dungeonRaidName |-> t.dungeonRaid.name ]

\* similarity scores the provider reports, in hundredths
Scores == {10, 95}

Truthy(n) == n # Undefined /\ n # 0

\* options.topK || 10
baseTopKOf(topK) == IF Truthy(topK) THEN topK ELSE DefaultTopK

adjustedTopKOf(options) ==
    IF options.dungeonRaidName # NoFilter
    THEN baseTopKOf(options.topK) * FilteredFactor
    ELSE baseTopKOf(options.topK) * UnfilteredFactor

\* the vectors that pass the provider-side equality filter
MatchesFilter(meta, options) ==
    /\ options.dungeonRaidName # NoFilter => meta.dungeonRaidName = options.dungeonRaidName
    /\ get(options, "encounterType", NoFilter) # NoFilter =>
            meta.encounterType = options.encounterType

Candidates(options) ==
    { [id |-> Corpus[d].mechanic.id, score |-> s, metadata |-> MetadataOf(Corpus[d])] :
        d \in {x \in MechIds : MatchesFilter(MetadataOf(Corpus[x]), options)}, s \in Scores }

\* every answer of searchSimilar: at most topK matches with distinct ids,
\* ranked by descending score
searchSimilar(options, topK) ==
    { r \in UNION { [1..n -> Candidates(options)] : n \in 0..Min(MaxMatches, topK) } :
        /\ \A i, j \in DOMAIN r : i < j => r[i].id # r[j].id /\ r[i].score >= r[j].score }

(***************************************************************************)
(* retrieveRelevantMechanics: resolution of targetEncounterOrder          *)
(***************************************************************************)
Range(f) == { f[i] : i \in DOMAIN f }

SetMax(S) == CHOOSE x \in S : \A y \in S : y <= x

SetMin(S) == CHOOSE x \in S : \A y \in S : x <= y

\* [...seq].sort((a, b) => a - b)[n - 1]
nthLowest(seq, n) ==
    CHOOSE v \in Range(seq) :
        /\ Cardinality({i \in DOMAIN seq : seq[i] < v}) < n
        /\ Cardinality({i \in DOMAIN seq : seq[i] <= v}) >= n

\* mutant: the boss-only restriction of the final branch is lost
storeMaxOrderAnyType(store, dungeon, isBossQuery) ==
    SetMax({0} \cup
        { e.encounter.order : e \in
            { x \in Range(store) :
                x.dungeonRaid.name = dungeon /\ Truthy(x.encounter.order) } })

\* the loop of the final branch: Math.max over the stored orders
storeMaxOrder(store, dungeon, isBossQuery) ==
    SetMax({0} \cup
        { e.encounter.order : e \in
            { x \in Range(store) :
                /\ x.dungeonRaid.name = dungeon
                /\ Truthy(x.encounter.order)
                /\ ~(isBossQuery /\ x.encounter.type # "boss") } })

\* the array bossEncounters: one order pushed per store entry
bossEncounters(store, dungeon) ==
    LET sel == SelectSeq(store, LAMBDA x :
                   /\ dungeon # NoFilter
                   /\ x.dungeonRaid.name = dungeon
                   /\ x.encounter.type = "boss"
                   /\ Truthy(x.encounter.order))
    IN  [i \in DOMAIN sel |-> sel[i].encounter.order]

Resolution(t, m) == [target |-> t, max |-> m]

resolveFromStore(store, options, pos, isFinal) ==
    LET dungeon == options.dungeonRaidName
        bosses  == bossEncounters(store, dungeon)
    IN
    IF dungeon # NoFilter /\ (pos.position = "final" \/ isFinal)
        THEN LET m == storeMaxOrder(store, dungeon, pos.isBossQuery)
             IN  Resolution(m, m)
    ELSE IF pos.position = "first" /\ pos.isBossQuery
        THEN Resolution(IF Len(bosses) > 0 THEN SetMin(Range(bosses)) ELSE Undefined, 0)
    ELSE IF pos.position = "second" /\ pos.isBossQuery
        THEN Resolution(IF Len(bosses) >= 2 THEN nthLowest(bosses, 2) ELSE Undefined, 0)
    ELSE IF pos.position = "third" /\ pos.isBossQuery
        THEN Resolution(IF Len(bosses) >= 3 THEN nthLowest(bosses, 3) ELSE Undefined, 0)
    ELSE IF Truthy(pos.orderNumber)
        THEN Resolution(pos.orderNumber, 0)
    ELSE Resolution(Undefined, 0)

\* mutant: the fallback scan forgets the collection test
directResultsAnyDungeon(store, dungeon) ==
    [i \in DOMAIN store |->
        [id |-> store[i].mechanic.id, score |-> DefaultScore, metadata |-> MetadataOf(store[i])]]

\* the fallback: every stored mechanic of the collection at the default score
directResults(store, dungeon) ==
    LET sel == SelectSeq(store, LAMBDA x : x.dungeonRaid.name = dungeon)
    IN  [i \in DOMAIN sel |->
            [id |-> sel[i].mechanic.id, score |-> DefaultScore, metadata |-> MetadataOf(sel[i])]]

\* the recomputation inside the fallback, from the metadata alone
resolveFromFallback(results, pos, isFinal, res) ==
    IF (pos.position = "final" \/ isFinal) /\ res.target = Undefined
    THEN LET m == SetMax({res.max} \cup
                    { r.metadata.encounterOrder : r \in
                        { x \in Range(results) :
                            /\ ~((isFinal \/ pos.isBossQuery) /\ x.metadata.encounterType # "boss")
                            /\ Truthy(x.metadata.encounterOrder) } })
         IN  Resolution(m, m)
    ELSE res

orderOf(store, r) ==
    IF storeHas(store, r.metadata.mechanicId)
       /\ storeGet(store, r.metadata.mechanicId).encounter.order # Undefined
    THEN storeGet(store, r.metadata.mechanicId).encounter.order
    ELSE r.metadata.encounterOrder

typeOf(store, r) ==
    IF storeHas(store, r.metadata.mechanicId)
    THEN storeGet(store, r.metadata.mechanicId).encounter.type
    ELSE r.metadata.encounterType

\* mutant: the last pass is left out
resolveFromResultsSkipped(store, results, pos, isFinal, res) == res

\* the last pass, over the search results
resolveFromResults(store, results, pos, isFinal, res) ==
    IF res.target = Undefined /\ (pos.position = "final" \/ isFinal)
    THEN LET m == SetMax({res.max} \cup
                    { orderOf(store, r) : r \in
                        { x \in Range(results) :
                            /\ ~((isFinal \/ pos.isBossQuery) /\ typeOf(store, x) # "boss")
                            /\ Truthy(orderOf(store, x)) } })
         IN  Resolution(m, m)
    ELSE res

(***************************************************************************)
(* retrieveRelevantMechanics: position filter/boost, flow boost, buckets  *)
(***************************************************************************)
\* isEncounterFlowMechanic over the names of the corpus, evaluated once
FlowNames == { n \in { Corpus[i].mechanic.name : i \in MechIds } : isEncounterFlowMechanic(n) }

\* mutant: no mechanic counts as a flow mechanic
isFlowNever(name) == FALSE

isFlow(name) == name \in FlowNames

\* mutant: the boost is not clamped
boostUnclamped(score, amount) == score + amount

\* Math.min(1.0, score + amount)
boost(score, amount) == Min(MaxScore, score + amount)

Processed(kept, flow, result) == [kept |-> kept, flow |-> flow, result |-> result]

\* mutant: the stored branch boosts a matching order but drops nothing
processStoredKeepAll(stored, r, target, max, isFinal) ==
    LET encounterOrder == IF stored.encounter.order # Undefined
                          THEN stored.encounter.order
                          ELSE r.metadata.encounterOrder
        positioned == IF target # Undefined /\ encounterOrder = target
                      THEN boost(r.score, PositionBoost)
                      ELSE r.score
        flow == isFlow(stored.mechanic.name)
    IN  Processed(TRUE, flow,
            [ id          |-> r.id,
              score       |-> IF flow THEN boost(positioned, FlowBoost) ELSE positioned,
              mechanic    |-> stored.mechanic,
              encounter   |-> stored.encounter,
              dungeonRaid |-> stored.dungeonRaid ])

\* the branch that takes the full data from the store
processStored(stored, r, target, max, isFinal) ==
    LET encounterOrder == IF stored.encounter.order # Undefined
                          THEN stored.encounter.order
                          ELSE r.metadata.encounterOrder
        dropped == /\ target # Undefined
                   /\ encounterOrder # target
                   /\ encounterOrder # Undefined
        positioned ==
            IF target # Undefined
            THEN IF encounterOrder = target THEN boost(r.score, PositionBoost) ELSE r.score
            ELSE IF isFinal /\ encounterOrder # Undefined /\ encounterOrder = max /\ max > 0
                 THEN boost(r.score, PositionBoost)
                 ELSE r.score
        flow == isFlow(stored.mechanic.name)
    IN  Processed(~dropped, flow,
            [ id          |-> r.id,
              score       |-> IF flow THEN boost(positioned, FlowBoost) ELSE positioned,
              mechanic    |-> stored.mechanic,
              encounter   |-> stored.encounter,
              dungeonRaid |-> stored.dungeonRaid ])

\* the branch that reconstructs the result from the vector metadata
processMetadata(r, target) ==
    LET metadata == r.metadata
        encounterOrder == metadata.encounterOrder
        dropped == /\ target # Undefined
                   /\ encounterOrder # Undefined
                   /\ encounterOrder # target
        positioned ==
            IF target # Undefined /\ encounterOrder # Undefined /\ encounterOrder = target
            THEN boost(r.score, PositionBoost)
            ELSE r.score
        flow == isFlow(metadata.mechanicName)
    IN  Processed(~dropped, flow,
            [ id          |-> r.id,
              score       |-> IF flow THEN boost(positioned, FlowBoost) ELSE positioned,
              mechanic    |-> [id |-> metadata.mechanicId, name |-> metadata.mechanicName],
              encounter   |-> [id |-> metadata.encounterId, type |-> metadata.encounterType,
                               order |-> encounterOrder],
              dungeonRaid |-> [name |-> metadata.dungeonRaidName] ])

processCandidate(store, r, target, max, isFinal) ==
    IF storeHas(store, r.metadata.mechanicId)
    THEN processStored(storeGet(store, r.metadata.mechanicId), r, target, max, isFinal)
    ELSE processMetadata(r, target)

\* one bucket: the kept results whose flow flag is `flow`, in candidate order
bucket(processed, flow) ==
    LET sel == SelectSeq(processed, LAMBDA p : p.kept /\ p.flow = flow)
    IN  [i \in DOMAIN sel |-> sel[i].result]

\* mutant: results of equal score come out in reverse order
RECURSIVE sortByScoreTiesReversed(_)
sortByScoreTiesReversed(seq) ==
    IF seq = <<>> THEN <<>>
    ELSE LET best == SetMax({ seq[i].score : i \in DOMAIN seq })
             tied == SelectSeq(seq, LAMBDA x : x.score = best)
         IN  [i \in DOMAIN tied |-> tied[Len(tied) + 1 - i]]
             \o sortByScoreTiesReversed(SelectSeq(seq, LAMBDA x : x.score # best))

\* Array.prototype.sort((a, b) => b.score - a.score): stable, descending
RECURSIVE sortByScore(_)
sortByScore(seq) ==
    IF seq = <<>> THEN <<>>
    ELSE LET best == SetMax({ seq[i].score : i \in DOMAIN seq })
         IN  SelectSeq(seq, LAMBDA x : x.score = best)
             \o sortByScore(SelectSeq(seq, LAMBDA x : x.score # best))

\* mutant: one list ordered by score alone
finalResultsByScore(flow, other) == sortByScore(flow \o other)

\* [...flowMechanics, ...otherMechanics]
finalResults(flow, other) == flow \o other

\* finalResults.slice(0, options.topK || 10)
slice(seq, limit) == SubSeq(seq, 1, Min(limit, Len(seq)))

(***************************************************************************)
(* State                                                                   *)
(***************************************************************************)
VARIABLES
    mechanicStore,          \* the Map of registered mechanics, in insertion order
    storeLoaded,            \* the load flag of loadMechanicStore
    pc,                     \* where the retrieve call stands
    query,                  \* its query text
    options,                \* its options: collection filter and topK
    encounterPosition,      \* detectEncounterPosition(query)
    isFinalBossQuery,       \* the literal final-style flag
    targetEncounterOrder,
    maxEncounterOrder,
    embedCalls,             \* calls of generateEmbedding made by this retrieve call
    searchCalls,            \* calls of searchSimilar made by this retrieve call
    providerResults,        \* what searchSimilar answered
    searchResults,          \* the candidates after the fallback
    flowMechanics,          \* the sorted flow bucket
    otherMechanics,         \* the sorted other bucket
    returned,               \* the list the call returned
    error,                  \* the message of the error the call threw
    argument,               \* the argument of a call of one of the pure functions
    result,                 \* what that call returned
    called,                 \* whether it has returned
    loaders,                \* where each caller of loadMechanicStore stands
    registrations,          \* registerMechanic calls made by each caller's load
    validFiles,             \* the documents under data/mechanics that parse and validate
    dataDirReadable,        \* whether readdirSync can list data/mechanics
    storeAtStart,           \* the store before the first load call
    registered,             \* the registerMechanic calls made so far, oldest first
    rateLimitStore,         \* the Map of rate-limit.ts: a record per client, or none
    now,                    \* Date.now(), in ticks
    limitResult,            \* what the last checkRateLimit call returned
    allowedInWindow,        \* per client and maxRequests: calls allowed in the open window
    handler,                \* the request in the chat or search handler and how far it is
    cache,                  \* the Map of lib/cache.ts: an entry per key, or none
    response                \* the last response a handler completed

vars == << mechanicStore, storeLoaded, pc, query, options, encounterPosition,
           isFinalBossQuery, targetEncounterOrder, maxEncounterOrder, embedCalls,
           searchCalls, providerResults, searchResults, flowMechanics,
           otherMechanics, returned, error, argument, result, called, loaders,
           registrations, validFiles, dataDirReadable, storeAtStart, registered,
           rateLimitStore, now, limitResult, allowedInWindow, handler, cache, response >>

harnessVars == << argument, result, called >>

loadVars == << loaders, registrations, validFiles, dataDirReadable, storeAtStart >>

limitVars == << rateLimitStore, now, limitResult, allowedInWindow >>

handlerVars == << handler, cache, response >>

\* what retrieveRelevantMechanics and the ingest handler never touch
outsideRetrieval == << harnessVars, loadVars, registered, limitVars, handlerVars >>

callVars == << query, options, encounterPosition, isFinalBossQuery,
               targetEncounterOrder, maxEncounterOrder >>

outVars == << providerResults, searchResults, flowMechanics, otherMechanics, returned >>

(***************************************************************************)
(* Inputs                                                                  *)
(***************************************************************************)
QueryFinalBoss == <<"F","i","n","a","l"," ","B","o","s","s"," ","t","i","p","s">>

QueryFirstBoss == <<"1","s","t"," ","b","o","s","s">>

QuerySecondBoss == <<"s","e","c","o","n","d"," ","b","o","s","s">>

QueryThirdBoss == <<"t","h","i","r","d"," ","b","o","s","s">>

QuerySecondEncounter == <<"2","n","d"," ","e","n","c","o","u","n","t","e","r">>

QueryBellPuzzle == <<"b","e","l","l"," ","p","u","z","z","l","e">>

QueryFinalEncounter == <<"F","i","n","a","l"," ","e","n","c","o","u","n","t","e","r">>

QueryLastEncounter == <<"l","a","s","t"," ","e","n","c","o","u","n","t","e","r">>

\* further queries: the final-encounter phrases and two mechanic names as typed
OtherQueries == { QueryFinalEncounter, QueryLastEncounter, NameBellPuzzle, NameVaultSymbols }

Queries == { QueryFinalBoss, QueryFirstBoss, QuerySecondBoss, QueryThirdBoss,
             QuerySecondEncounter, QueryBellPuzzle }

DungeonFilters == { NoFilter, "Duality", "Equilibrium" }

TopKs == { Undefined } \cup 0..MaxTopK

OptionsSet == [ dungeonRaidName : DungeonFilters, topK : TopKs ]

ErrEmbedding == "Failed to generate embedding"

ErrSearch == "Failed to search vector store"

ErrRetrieve == "Failed to retrieve relevant mechanics"

\* the query interpreter over the queries, and the provider's possible answers
\* per options value, evaluated once
Interpreted ==
    [ q \in Queries \cup OtherQueries |->
        [position |-> detectEncounterPosition(q), final |-> isFinalBossQueryOf(q)] ]

Answers == [ o \in OptionsSet |-> searchSimilar(o, adjustedTopKOf(o)) ]

\* mutant: the provider's own error escapes
rethrow(inner) == inner

\* the catch block of retrieveRelevantMechanics
wrapError(inner) == ErrRetrieve

\* what a call returns, as a function of the store it finds after the load
\* and of the answer of searchSimilar
retrieveRelevantMechanics(store, q, o, answer) ==
    LET pos        == Interpreted[q].position
        isFinal    == Interpreted[q].final
        fallback   == Len(answer) = 0 /\ o.dungeonRaidName # NoFilter
        candidates == IF fallback THEN directResults(store, o.dungeonRaidName) ELSE answer
        res0       == resolveFromStore(store, o, pos, isFinal)
        res1       == IF fallback
                      THEN resolveFromFallback(candidates, pos, isFinal, res0)
                      ELSE res0
        res2       == resolveFromResults(store, candidates, pos, isFinal, res1)
        processed  == [i \in DOMAIN candidates |->
                          processCandidate(store, candidates[i], res2.target, res2.max, isFinal)]
    IN  slice(finalResults(sortByScore(bucket(processed, TRUE)),
                           sortByScore(bucket(processed, FALSE))),
              baseTopKOf(o.topK))

(***************************************************************************)
(* Init: the module has just been loaded                                   *)
(***************************************************************************)
Callers == 1..MaxCallers

Clients == {"10.0.0.1", "10.0.0.2"}

NoCall ==
    [ client |-> "", maxRequests |-> 0, allowed |-> FALSE, remaining |-> 0, resetAt |-> 0,
      created |-> FALSE, hadRecord |-> FALSE, pastReset |-> FALSE ]

\* no retrieve call is running
RetrievalAtRest ==
    /\ pc = "idle"
    /\ query = <<>>
    /\ options = [dungeonRaidName |-> NoFilter, topK |-> Undefined]
    /\ encounterPosition = NoPosition
    /\ isFinalBossQuery = FALSE
    /\ targetEncounterOrder = Undefined
    /\ maxEncounterOrder = 0
    /\ embedCalls = 0
    /\ searchCalls = 0
    /\ providerResults = <<>>
    /\ searchResults = <<>>
    /\ flowMechanics = <<>>
    /\ otherMechanics = <<>>
    /\ returned = <<>>
    /\ error = ""

\* no call of a pure function is followed
HarnessAtRest ==
    /\ argument = <<>>
    /\ result = <<>>
    /\ called = FALSE

\* no caller of loadMechanicStore is followed
LoadAtRest ==
    /\ loaders = [c \in Callers |-> "idle"]
    /\ registrations = [c \in Callers |-> 0]
    /\ validFiles = DataFiles
    /\ dataDirReadable = TRUE
    /\ storeAtStart = <<>>

\* the rate limiter has seen no call
LimiterAtRest ==
    /\ rateLimitStore = [c \in {} |-> 0]
    /\ now = 0
    /\ limitResult = NoCall
    /\ allowedInWindow = [c \in Clients |-> [m \in 1..MaxLimit |-> 0]]

\* a handler without request: no body, no cache entry seen (seen notes
\* whether the cache held an entry for the key at the lookup that was within
\* its time to live, or one past it, and the data of a live one), no
\* provider called, nothing generated, a response stream not yet written to
IdleHandler ==
    [ pc       |-> "idle",
      route    |-> "",
      body     |-> [ query |-> <<>>, filters |-> [present |-> FALSE, dungeonRaidName |-> NoFilter],
                     limit |-> Undefined ],
      seen     |-> [ live |-> FALSE, stale |-> FALSE, data |-> <<>> ],
      calls    |-> [ loads |-> 0, embeds |-> 0, searches |-> 0, generations |-> 0 ],
      events   |-> 0,
      produced |-> <<>>,
      stream   |-> [ queue |-> <<>>, closed |-> 0 ] ]

\* the response of a handler: what it answers with (status, results, cached
\* flag, the stream) and what the request went through
Response(request, allowed, status, results, cached, time, failed) ==
    [ route    |-> request.route,
      body     |-> request.body,
      allowed  |-> allowed,
      status   |-> status,
      results  |-> results,
      cached   |-> cached,
      seen     |-> request.seen,
      at       |-> time,
      calls    |-> request.calls,
      produced |-> request.produced,
      stream   |-> request.stream,
      failed   |-> failed ]

NoResponse == Response(IdleHandler, FALSE, 0, <<>>, FALSE, 0, FALSE)

\* no request has reached a handler
HandlersAtRest ==
    /\ handler = IdleHandler
    /\ cache = [k \in {} |-> 0]
    /\ response = NoResponse

Init ==
    /\ mechanicStore = <<>>
    /\ storeLoaded = FALSE
    /\ RetrievalAtRest
    /\ HarnessAtRest
    /\ LoadAtRest
    /\ registered = <<>>
    /\ LimiterAtRest
    /\ HandlersAtRest

(***************************************************************************)
(* The ingest handler registers the mechanics of its request.  Requests    *)
(* arrive between retrieve calls, in ascending order of mechanic id.       *)
(***************************************************************************)
Ingest ==
    /\ pc = "idle"
    /\ \E id \in MechIds :
        /\ \A i \in DOMAIN mechanicStore : mechanicStore[i].mechanic.id < id
        /\ mechanicStore' = registerMechanic(mechanicStore, Corpus[id])
    /\ UNCHANGED << storeLoaded, pc, callVars, embedCalls, searchCalls, outVars, error >>
    /\ UNCHANGED outsideRetrieval

(***************************************************************************)
(* loadMechanicStore: a no-op once the flag is set; otherwise either the   *)
(* directory cannot be read (caught, flag left unset) or every document is *)
(* registered and the flag is set.  A deployment whose directory can be    *)
(* read loads it on the first retrieve call, before any ingest request.    *)
(***************************************************************************)
loadMechanicStore(store, loaded, readable) ==
    IF loaded \/ ~readable
    THEN [store |-> store, loaded |-> loaded]
    ELSE [store  |-> loadFiles([store |-> store, count |-> 0, completed |-> TRUE],
                               DataFileList, DataFiles).store,
          loaded |-> TRUE]

(***************************************************************************)
(* retrieveRelevantMechanics up to its first await                         *)
(***************************************************************************)
RetrieveStartOn(queries, optionsSet) ==
    /\ pc = "idle"
    /\ \E q \in queries, o \in optionsSet, readable \in BOOLEAN :
        /\ storeLoaded => readable
        /\ (readable /\ ~storeLoaded) => mechanicStore = <<>>
        /\ \E ld \in { loadMechanicStore(mechanicStore, storeLoaded, readable) } :
            \E res \in { resolveFromStore(ld.store, o, Interpreted[q].position,
                                          Interpreted[q].final) } :
                /\ mechanicStore' = ld.store
                /\ storeLoaded' = ld.loaded
                /\ query' = q
                /\ options' = o
                /\ encounterPosition' = Interpreted[q].position
                /\ isFinalBossQuery' = Interpreted[q].final
                /\ targetEncounterOrder' = res.target
                /\ maxEncounterOrder' = res.max
    /\ pc' = "embedding"
    /\ embedCalls' = 0
    /\ searchCalls' = 0
    /\ providerResults' = <<>>
    /\ searchResults' = <<>>
    /\ flowMechanics' = <<>>
    /\ otherMechanics' = <<>>
    /\ returned' = <<>>
    /\ error' = ""
    /\ UNCHANGED outsideRetrieval

RetrieveStart == RetrieveStartOn(Queries, OptionsSet)

\* generateEmbedding answers
EmbedOk ==
    /\ pc = "embedding"
    /\ embedCalls' = embedCalls + 1
    /\ pc' = "searching"
    /\ UNCHANGED << mechanicStore, storeLoaded, callVars, searchCalls, outVars, error >>
    /\ UNCHANGED outsideRetrieval

\* generateEmbedding throws: the catch block wraps the error
EmbedFail ==
    /\ pc = "embedding"
    /\ embedCalls' = embedCalls + 1
    /\ pc' = "failed"
    /\ error' = wrapError(ErrEmbedding)
    /\ UNCHANGED << mechanicStore, storeLoaded, callVars, searchCalls, outVars >>
    /\ UNCHANGED outsideRetrieval

\* searchSimilar throws
SearchFail ==
    /\ pc = "searching"
    /\ searchCalls' = searchCalls + 1
    /\ pc' = "failed"
    /\ error' = wrapError(ErrSearch)
    /\ UNCHANGED << mechanicStore, storeLoaded, callVars, embedCalls, outVars >>
    /\ UNCHANGED outsideRetrieval

\* searchSimilar answers; the rest of the function runs without an await
SearchOk ==
    /\ pc = "searching"
    /\ \E answer \in Answers[options] :
        \E candidates \in { IF Len(answer) = 0 /\ options.dungeonRaidName # NoFilter
                             THEN directResults(mechanicStore, options.dungeonRaidName)
                             ELSE answer } :
        \E res1 \in { IF Len(answer) = 0 /\ options.dungeonRaidName # NoFilter
                       THEN resolveFromFallback(candidates, encounterPosition, isFinalBossQuery,
                                Resolution(targetEncounterOrder, maxEncounterOrder))
                       ELSE Resolution(targetEncounterOrder, maxEncounterOrder) } :
        \E res2 \in { resolveFromResults(mechanicStore, candidates, encounterPosition,
                                          isFinalBossQuery, res1) } :
        \E processed \in { [i \in DOMAIN candidates |->
                               processCandidate(mechanicStore, candidates[i], res2.target,
                                                res2.max, isFinalBossQuery)] } :
        \E flow \in { sortByScore(bucket(processed, TRUE)) } :
        \E other \in { sortByScore(bucket(processed, FALSE)) } :
            /\ providerResults' = answer
            /\ searchResults' = candidates
            /\ targetEncounterOrder' = res2.target
            /\ maxEncounterOrder' = res2.max
            /\ flowMechanics' = flow
            /\ otherMechanics' = other
            /\ returned' = slice(finalResults(flow, other), baseTopKOf(options.topK))
    /\ searchCalls' = searchCalls + 1
    /\ pc' = "done"
    /\ UNCHANGED << mechanicStore, storeLoaded, query, options, encounterPosition,
                    isFinalBossQuery, embedCalls, error >>
    /\ UNCHANGED outsideRetrieval

\* the caller has the answer and the call's locals are gone; the next request
\* may start
Return ==
    /\ pc \in {"done", "failed"}
    /\ pc' = "idle"
    /\ query' = <<>>
    /\ options' = [dungeonRaidName |-> NoFilter, topK |-> Undefined]
    /\ encounterPosition' = NoPosition
    /\ isFinalBossQuery' = FALSE
    /\ targetEncounterOrder' = Undefined
    /\ maxEncounterOrder' = 0
    /\ embedCalls' = 0
    /\ searchCalls' = 0
    /\ providerResults' = <<>>
    /\ searchResults' = <<>>
    /\ flowMechanics' = <<>>
    /\ otherMechanics' = <<>>
    /\ returned' = <<>>
    /\ error' = ""
    /\ UNCHANGED << mechanicStore, storeLoaded >>
    /\ UNCHANGED outsideRetrieval

Next ==
    \/ Ingest
    \/ RetrieveStart
    \/ EmbedOk
    \/ EmbedFail
    \/ SearchOk
    \/ SearchFail
    \/ Return

Spec == Init /\ [][Next]_vars

(***************************************************************************)
(* The same machine on the further queries, with topK omitted or 1         *)
(***************************************************************************)
OtherOptions == [ dungeonRaidName : DungeonFilters, topK : { Undefined, 1 } ]

RetrieveStartOther == RetrieveStartOn(OtherQueries, OtherOptions)

NextOther ==
    \/ Ingest
    \/ RetrieveStartOther
    \/ EmbedOk
    \/ EmbedFail
    \/ SearchOk
    \/ SearchFail
    \/ Return

SpecOther == Init /\ [][NextOther]_vars

(***************************************************************************)
(* Properties of retrieveRelevantMechanics                                 *)
(***************************************************************************)
\* what survived the position filter, before truncation
Kept == flowMechanics \o otherMechanics

KeptIds == { Kept[i].id : i \in DOMAIN Kept }

UsedFallback == Len(providerResults) = 0 /\ options.dungeonRaidName # NoFilter

\* the stored entries of a collection
StoredOf(dungeon) == { x \in Range(mechanicStore) : x.dungeonRaid.name = dungeon }

\* the boss-type encounters of a collection that carry an order, each once
BossEncountersOf(dungeon) ==
    { x.encounter : x \in { y \in StoredOf(dungeon) :
                              y.encounter.type = "boss" /\ y.encounter.order # Undefined } }

BossOrders(dungeon) == { e.order : e \in BossEncountersOf(dungeon) }

\* the n-th lowest order among the boss encounters, counting each encounter once
NthBossOrder(dungeon, n) ==
    CHOOSE v \in BossOrders(dungeon) :
        /\ Cardinality({ e \in BossEncountersOf(dungeon) : e.order < v }) < n
        /\ Cardinality({ e \in BossEncountersOf(dungeon) : e.order <= v }) >= n

Rank(position) ==
    CASE position = "first" -> 1
      [] position = "second" -> 2
      [] position = "third" -> 3
      [] OTHER -> 0

\* the encounter order the processing loop resolves for a candidate
ResolvedOrder(c) ==
    IF \E x \in Range(mechanicStore) :
           x.mechanic.id = c.metadata.mechanicId /\ x.encounter.order # Undefined
    THEN (CHOOSE x \in Range(mechanicStore) :
              x.mechanic.id = c.metadata.mechanicId).encounter.order
    ELSE c.metadata.encounterOrder

\* the name the processing loop reads for a candidate
ResolvedName(c) ==
    IF \E x \in Range(mechanicStore) : x.mechanic.id = c.metadata.mechanicId
    THEN (CHOOSE x \in Range(mechanicStore) :
              x.mechanic.id = c.metadata.mechanicId).mechanic.name
    ELSE c.metadata.mechanicName

\* C1: a retrieve call with topK = N >= 0 returns at most N results, and at
\* most 10 when topK is omitted.
C1_AtMostTopK ==
    pc = "done" =>
        Len(returned) <= (IF options.topK = Undefined THEN 10 ELSE options.topK)

\* C2: every score of a returned list (and of the buckets it is cut from) lies
\* in [0, 1], whichever boosts were applied.
C2_ScoresInUnitInterval ==
    pc = "done" =>
        /\ \A i \in DOMAIN returned : returned[i].score >= 0 /\ returned[i].score <= 100
        /\ \A i \in DOMAIN Kept : Kept[i].score >= 0 /\ Kept[i].score <= 100

\* a returned flow mechanic of the target order whose provider score was 0.95:
\* both boosts applied, score 1.0
C2_BothBoostsApplied ==
    /\ pc = "done"
    /\ targetEncounterOrder # Undefined
    /\ \E i \in DOMAIN returned, j \in DOMAIN providerResults :
        /\ providerResults[j].id = returned[i].id
        /\ providerResults[j].score = 95
        /\ returned[i].encounter.order = targetEncounterOrder
        /\ isEncounterFlowMechanic(returned[i].mechanic.name)
        /\ returned[i].score = 100

\* C3: with targetEncounterOrder defined, every returned result has that
\* encounter order or none.
C3_TargetOrderOrNone ==
    (pc = "done" /\ targetEncounterOrder # Undefined) =>
        \A i \in DOMAIN returned :
            returned[i].encounter.order \in { targetEncounterOrder, Undefined }

\* a position-filtered call that dropped a candidate and returned both a
\* result of the target order and a result without order
C3_FilteredWithBothKinds ==
    /\ pc = "done"
    /\ targetEncounterOrder # Undefined
    /\ Len(Kept) < Len(searchResults)
    /\ \E i \in DOMAIN returned : returned[i].encounter.order = targetEncounterOrder
    /\ \E i \in DOMAIN returned : returned[i].encounter.order = Undefined

\* C4: in the returned list every flow mechanic precedes every non-flow
\* mechanic, and the list is a prefix of flow bucket followed by other bucket.
C4_FlowFirst ==
    pc = "done" =>
        /\ \A i, j \in DOMAIN returned :
            (i < j /\ isFlow(returned[j].mechanic.name)) => isFlow(returned[i].mechanic.name)
        /\ \A i \in DOMAIN flowMechanics : isFlow(flowMechanics[i].mechanic.name)
        /\ \A i \in DOMAIN otherMechanics : ~isFlow(otherMechanics[i].mechanic.name)
        /\ Len(returned) <= Len(Kept)
        /\ \A i \in DOMAIN returned : returned[i] = Kept[i]

\* a flow mechanic returned ahead of a non-flow mechanic of higher score
C4_FlowAheadOfHigherScore ==
    /\ pc = "done"
    /\ Len(returned) >= 2
    /\ isEncounterFlowMechanic(returned[1].mechanic.name)
    /\ ~isEncounterFlowMechanic(returned[2].mechanic.name)
    /\ returned[1].score < returned[2].score

\* C5: when the search answers nothing for a collection filter and the store
\* holds N > 0 mechanics of the collection, the candidates are exactly those
\* N, each at 0.5, and position filter/boost and flow boost/bucketing apply:
\* a candidate of another defined order is dropped, one of the target order
\* ends at 1.0 (0.5 + 0.8 clamped), a flow mechanic gains 0.3 and lands in the
\* flow bucket.
C5_FallbackCandidates ==
    (pc = "done" /\ UsedFallback /\ StoredOf(options.dungeonRaidName) # {}) =>
        /\ Len(searchResults) = Cardinality(StoredOf(options.dungeonRaidName))
        /\ \A x \in StoredOf(options.dungeonRaidName) :
            \E i \in DOMAIN searchResults :
                searchResults[i].id = x.mechanic.id /\ searchResults[i].score = 50
        /\ \A x \in StoredOf(options.dungeonRaidName) :
            LET order    == x.encounter.order
                flow     == isEncounterFlowMechanic(x.mechanic.name)
                matched  == targetEncounterOrder # Undefined /\ order = targetEncounterOrder
                dropped  == /\ targetEncounterOrder # Undefined
                            /\ order # Undefined
                            /\ order # targetEncounterOrder
                expected == IF matched THEN 100 ELSE IF flow THEN 80 ELSE 50
                inBucket == IF flow THEN flowMechanics ELSE otherMechanics
                offBucket == IF flow THEN otherMechanics ELSE flowMechanics
            IN  /\ \A k \in DOMAIN offBucket : offBucket[k].id # x.mechanic.id
                /\ IF dropped
                   THEN \A k \in DOMAIN inBucket : inBucket[k].id # x.mechanic.id
                   ELSE \E k \in DOMAIN inBucket :
                            /\ inBucket[k].id = x.mechanic.id
                            /\ inBucket[k].score = expected

\* a fallback over several stored mechanics with a position filter: one is
\* dropped, a flow mechanic of the target order ends at 1.0 and a mechanic
\* without order stays at 0.5
C5_FallbackFilteredAndBoosted ==
    /\ pc = "done"
    /\ UsedFallback
    /\ targetEncounterOrder # Undefined
    /\ Len(Kept) < Len(searchResults)
    /\ \E k \in DOMAIN flowMechanics : flowMechanics[k].score = 100
    /\ \E k \in DOMAIN otherMechanics :
        otherMechanics[k].score = 50 /\ otherMechanics[k].encounter.order = Undefined

\* C6: for a final-boss query with a collection filter, targetEncounterOrder
\* is the maximum order among the stored boss-type encounters of the
\* collection; a candidate whose resolved order equals it is boosted by 0.8
\* (clamped) and kept, a candidate of another defined order is dropped.
C6_FinalBossTarget ==
    ( /\ pc = "done"
      /\ encounterPosition.position = "final"
      /\ encounterPosition.isBossQuery
      /\ options.dungeonRaidName # NoFilter ) =>
        /\ BossOrders(options.dungeonRaidName) # {} =>
            /\ targetEncounterOrder \in BossOrders(options.dungeonRaidName)
            /\ \A o \in BossOrders(options.dungeonRaidName) : o <= targetEncounterOrder
        /\ \A i \in DOMAIN searchResults :
            LET c       == searchResults[i]
                order   == ResolvedOrder(c)
                plus80  == IF c.score + 80 > 100 THEN 100 ELSE c.score + 80
                boosted == IF isEncounterFlowMechanic(ResolvedName(c))
                           THEN (IF plus80 + 30 > 100 THEN 100 ELSE plus80 + 30)
                           ELSE plus80
            IN  /\ order = targetEncounterOrder =>
                    \E k \in DOMAIN Kept : Kept[k].id = c.id /\ Kept[k].score = boosted
                /\ (order # Undefined /\ order # targetEncounterOrder) => c.id \notin KeptIds

\* the scenario: bosses at orders 2 and 5 in the filtered collection, a
\* candidate of order 5 boosted and a candidate of order 2 dropped
C6_BossesTwoAndFive ==
    /\ pc = "done"
    /\ encounterPosition.position = "final"
    /\ encounterPosition.isBossQuery
    /\ options.dungeonRaidName = "Duality"
    /\ BossOrders("Duality") = {2, 5}
    /\ targetEncounterOrder = 5
    /\ \E i, j \in DOMAIN providerResults :
        /\ ResolvedOrder(providerResults[i]) = 5
        /\ providerResults[i].id \in KeptIds
        /\ ResolvedOrder(providerResults[j]) = 2
        /\ providerResults[j].id \notin KeptIds

\* C7: for a first/second/third boss query with a collection filter and at
\* least that many boss-type encounters, targetEncounterOrder is the n-th
\* lowest order among them, each encounter counted once.
C7_NthBossEncounter ==
    ( /\ pc = "done"
      /\ encounterPosition.position \in {"first", "second", "third"}
      /\ encounterPosition.isBossQuery
      /\ options.dungeonRaidName # NoFilter
      /\ Cardinality(BossEncountersOf(options.dungeonRaidName))
            >= Rank(encounterPosition.position) ) =>
        targetEncounterOrder =
            NthBossOrder(options.dungeonRaidName, Rank(encounterPosition.position))

\* C8: for a second (third) boss query with a collection filter and fewer
\* than 2 (3) boss-type encounters, targetEncounterOrder stays unresolved and
\* no candidate is dropped or boosted by position.
C8_TooFewBossEncounters ==
    ( /\ pc = "done"
      /\ encounterPosition.position \in {"second", "third"}
      /\ encounterPosition.isBossQuery
      /\ options.dungeonRaidName # NoFilter
      /\ Cardinality(BossEncountersOf(options.dungeonRaidName))
            < Rank(encounterPosition.position) ) =>
        /\ targetEncounterOrder = Undefined
        /\ Len(Kept) = Len(searchResults)
        /\ \A i \in DOMAIN searchResults :
            \E k \in DOMAIN Kept :
                /\ Kept[k].id = searchResults[i].id
                /\ Kept[k].score <= searchResults[i].score + 30

\* C9: with targetEncounterOrder defined, all returned results belong to one
\* collection, with or without a collection filter.
C9_OneCollection ==
    (pc = "done" /\ targetEncounterOrder # Undefined) =>
        \A i, j \in DOMAIN returned :
            returned[i].dungeonRaid.name = returned[j].dungeonRaid.name

\* C10: a failing embedding or search call makes the retrieve call fail with
\* the one wrapped error and no result list, a returned list comes with no
\* error, and each provider is called at most once per retrieve call (the
\* search only after the embedding answered).
C10_SingleWrappedError ==
    /\ embedCalls <= 1
    /\ searchCalls <= 1
    /\ searchCalls <= embedCalls
    /\ pc = "failed" =>
        /\ error = "Failed to retrieve relevant mechanics"
        /\ returned = <<>>
        /\ Kept = <<>>
    /\ pc = "done" => (error = "" /\ embedCalls = 1 /\ searchCalls = 1)

\* the search call failed after the embedding call answered
C10_SearchFailedAfterEmbedding ==
    /\ pc = "failed"
    /\ embedCalls = 1
    /\ searchCalls = 1

(***************************************************************************)
(* detectEncounterPosition as a function of the query alone                *)
(***************************************************************************)
\* the position phrases with what each stands for
PhraseTable ==
    << [phrase |-> FinalBoss,          position |-> "final",  boss |-> TRUE,  n |-> 0],
       [phrase |-> LastBoss,           position |-> "final",  boss |-> TRUE,  n |-> 0],
       [phrase |-> FinalEncounter,     position |-> "final",  boss |-> FALSE, n |-> 0],
       [phrase |-> LastEncounter,      position |-> "final",  boss |-> FALSE, n |-> 0],
       [phrase |-> FirstBoss,          position |-> "first",  boss |-> TRUE,  n |-> 1],
       [phrase |-> FirstBossNum,       position |-> "first",  boss |-> TRUE,  n |-> 1],
       [phrase |-> FirstEncounter,     position |-> "first",  boss |-> FALSE, n |-> 1],
       [phrase |-> FirstEncounterNum,  position |-> "first",  boss |-> FALSE, n |-> 1],
       [phrase |-> SecondBoss,         position |-> "second", boss |-> TRUE,  n |-> 2],
       [phrase |-> SecondBossNum,      position |-> "second", boss |-> TRUE,  n |-> 2],
       [phrase |-> SecondEncounter,    position |-> "second", boss |-> FALSE, n |-> 2],
       [phrase |-> SecondEncounterNum, position |-> "second", boss |-> FALSE, n |-> 2],
       [phrase |-> ThirdBoss,          position |-> "third",  boss |-> TRUE,  n |-> 3],
       [phrase |-> ThirdBossNum,       position |-> "third",  boss |-> TRUE,  n |-> 3],
       [phrase |-> ThirdEncounter,     position |-> "third",  boss |-> FALSE, n |-> 3],
       [phrase |-> ThirdEncounterNum,  position |-> "third",  boss |-> FALSE, n |-> 3] >>

\* a text in capital letters
InCapitals(s) ==
    [i \in 1..Len(s) |->
        IF \E k \in 1..Len(Lowers) : Lowers[k] = s[i]
        THEN Uppers[CHOOSE k \in 1..Len(Lowers) : Lowers[k] = s[i]]
        ELSE s[i]]

WordHelp == <<"h","e","l","p">>

\* the queries: one or two position phrases (or none) among other words, in
\* lower case and in capitals
PositionQueries ==
    LET parts == { PhraseTable[i].phrase : i \in DOMAIN PhraseTable } \cup { WordHelp }
        lower == { a \o <<" ">> \o b : a \in parts, b \in parts }
    IN  lower \cup { InCapitals(q) : q \in lower }

\* a call of a pure function is about to be made with one of the arguments
InitCall(arguments) ==
    /\ mechanicStore = <<>>
    /\ storeLoaded = FALSE
    /\ RetrievalAtRest
    /\ argument \in arguments
    /\ result = <<>>
    /\ called = FALSE
    /\ LoadAtRest
    /\ registered = <<>>
    /\ LimiterAtRest
    /\ HandlersAtRest

CallDetectEncounterPosition ==
    /\ ~called
    /\ result' = detectEncounterPosition(argument)
    /\ called' = TRUE
    /\ UNCHANGED << mechanicStore, storeLoaded, pc, callVars, embedCalls, searchCalls,
                    outVars, error, argument, loadVars, registered, limitVars, handlerVars >>

SpecPosition == InitCall(PositionQueries) /\ [][CallDetectEncounterPosition]_vars

\* the phrases of the table the argument contains, case-insensitively
Contained == { i \in DOMAIN PhraseTable : includes(toLowerCase(argument), PhraseTable[i].phrase) }

\* what a phrase of the table stands for as a PositionSpec
SpecOf(e) ==
    [ position    |-> e.position,
      orderNumber |-> IF e.boss \/ e.position = "final" THEN Undefined ELSE e.n,
      isBossQuery |-> e.boss ]

\* the priority stated by the sentence: a outranks b
Outranks(a, b) ==
    \/ a.position = "final" /\ b.position # "final"
    \/ a.boss /\ ~b.boss

\* the priority of the cascade: position first (final, first, second, third),
\* boss before encounter within one position; lower is higher
Priority(e) == 2 * e.n + (IF e.boss THEN 0 ELSE 1)

\* C11 as stated: the result is the PositionSpec of a contained phrase that no
\* contained phrase outranks, where every final/last phrase outranks every
\* first/second/third phrase and every boss phrase outranks every encounter
\* phrase; no phrase yields undefined.
C11_AsStated ==
    called =>
        IF Contained = {} THEN result = NoPosition
        ELSE \E i \in Contained :
                /\ \A j \in Contained : ~Outranks(PhraseTable[j], PhraseTable[i])
                /\ result = SpecOf(PhraseTable[i])

\* C11 (amended): the result is the PositionSpec of the contained phrase of
\* highest priority, position deciding first (final, first, second, third)
\* and boss before encounter only within one position; a boss phrase yields
\* isBossQuery = true and no orderNumber, an n-th encounter phrase yields
\* isBossQuery = false and orderNumber = n, a final/last encounter phrase
\* yields isBossQuery = false and no orderNumber, and a query with no position
\* phrase yields undefined.
C11_HighestPriorityPhrase ==
    called =>
        IF Contained = {} THEN result = NoPosition
        ELSE \E i \in Contained :
                /\ \A j \in Contained : Priority(PhraseTable[i]) <= Priority(PhraseTable[j])
                /\ result = SpecOf(PhraseTable[i])
                /\ result.isBossQuery => result.orderNumber = Undefined
                /\ (~result.isBossQuery /\ result.position # "final") =>
                        result.orderNumber = PhraseTable[i].n

\* a query in capitals holding "first encounter" and "second boss": the
\* encounter phrase of the earlier position wins
C11_EncounterPhraseBeatsLaterBoss ==
    /\ called
    /\ argument = InCapitals(SecondBoss \o <<" ">> \o FirstEncounter)
    /\ result = PositionSpec("first", 1, FALSE)

(***************************************************************************)
(* extractDungeonName as a function of the query alone                     *)
(***************************************************************************)
\* "warlord's ruin" written with another apostrophe character (here "^"): not
\* in the list
NameCurlyWarlords == <<"w","a","r","l","o","r","d","^","s"," ","r","u","i","n">>

\* the queries: one or two names (or other words) in lower case and capitals
DungeonQueries ==
    LET parts == { dungeonNames[i] : i \in DOMAIN dungeonNames }
                    \cup { WordHelp, NameCurlyWarlords }
        lower == { a \o <<" ">> \o b : a \in parts, b \in parts }
    IN  lower \cup { InCapitals(q) : q \in lower }

CallExtractDungeonName ==
    /\ ~called
    /\ result' = extractDungeonName(argument)
    /\ called' = TRUE
    /\ UNCHANGED << mechanicStore, storeLoaded, pc, callVars, embedCalls, searchCalls,
                    outVars, error, argument, loadVars, registered, limitVars, handlerVars >>

SpecDungeonName == InitCall(DungeonQueries) /\ [][CallExtractDungeonName]_vars

\* whether the argument contains the k-th entry of the list, case-insensitively
Names(k) == includes(toLowerCase(argument), dungeonNames[k])

\* C12: extractDungeonName returns the display name of the first entry of the
\* list warlord's ruin, warlords ruin, duality, vesper's host, vespers host,
\* sundered doctrine, equilibrium that occurs in the query case-insensitively;
\* both spellings of a collection give one name; no entry gives undefined; the
\* result is one of the five display names or undefined.
C12_FirstListedName ==
    called =>
        /\ result =
            ( IF Names(1) \/ Names(2) THEN "Warlord's Ruin"
              ELSE IF Names(3) THEN "Duality"
              ELSE IF Names(4) \/ Names(5) THEN "Vesper's Host"
              ELSE IF Names(6) THEN "Sundered Doctrine"
              ELSE IF Names(7) THEN "Equilibrium"
              ELSE NoName )
        /\ result \in { "Warlord's Ruin", "Duality", "Vesper's Host", "Sundered Doctrine",
                         "Equilibrium", NoName }

\* a query in capitals naming Equilibrium before Vesper's Host in the alias
\* spelling: the entry that is earlier in the list wins, under its display name
C12_AliasBeforeLaterEntry ==
    /\ called
    /\ argument = InCapitals(dungeonNames[7] \o <<" ">> \o dungeonNames[5])
    /\ result = "Vesper's Host"

(***************************************************************************)
(* The filters of a search request on their way to the provider: the       *)
(* request schema (route.ts), the search options of the retrieval engine   *)
(* (rag.ts) and the filter searchSimilar builds (lib/vector-store.ts).     *)
(* An optional string that is absent is "" (the code tests truthiness), an *)
(* optional boolean is "true", "false" or "undefined".                     *)
(***************************************************************************)
Optional == { "undefined", "true", "false" }

\* the filters a request body may carry, known to the schema or not
BodyFilters ==
    [ dungeonRaidName     : { "", "Duality" },
      encounterType       : { "", "boss" },
      mechanicType        : { "", "puzzle" },
      difficulty          : { "", "hard" },
      contestModeOnly     : Optional,
      contestModeSpecific : Optional,
      encounterOrder      : { Undefined, 2 } ]

\* SearchRequestSchema.parse: a zod object keeps the keys it declares
parseFilters(body) ==
    [ dungeonRaidName |-> body.dungeonRaidName,
      encounterType   |-> body.encounterType,
      mechanicType    |-> body.mechanicType,
      difficulty      |-> body.difficulty,
      contestModeOnly |-> body.contestModeOnly ]

\* searchOptions = {...options, topK: adjustedTopK}: the filter object as given
searchOptionsOf(callOptions, adjustedTopK) ==
    [ filter |-> callOptions.filter, topK |-> adjustedTopK ]

\* the filter searchSimilar hands to the provider; "" and "undefined" and
\* Undefined stand for a key without $eq test
providerFilter(filter) ==
    [ dungeonRaidName     |-> get(filter, "dungeonRaidName", ""),
      encounterType       |-> get(filter, "encounterType", ""),
      mechanicType        |-> get(filter, "mechanicType", ""),
      difficulty          |-> get(filter, "difficulty", ""),
      contestModeSpecific |-> get(filter, "contestModeSpecific", "undefined"),
      encounterOrder      |-> get(filter, "encounterOrder", Undefined) ]

\* the search handler from the parse of the body to the provider call
SearchWithFilters ==
    /\ ~called
    /\ \E validated \in { parseFilters(argument) } :
        \E searchOptions \in { searchOptionsOf([filter |-> validated, topK |-> DefaultTopK],
                                                DefaultTopK * UnfilteredFactor) } :
            result' = providerFilter(searchOptions.filter)
    /\ called' = TRUE
    /\ UNCHANGED << mechanicStore, storeLoaded, pc, callVars, embedCalls, searchCalls,
                    outVars, error, argument, loadVars, registered, limitVars, handlerVars >>

SpecFilters == InitCall(BodyFilters) /\ [][SearchWithFilters]_vars

\* C13: a contest-mode filter of the search request (contestModeOnly) reaches
\* the provider as an equality test on contestModeSpecific, as the collection,
\* encounter-type, mechanic-type and difficulty filters reach it, and the
\* provider filter holds no encounter-order test.
C13_ContestModeReachesProvider ==
    called =>
        /\ result.dungeonRaidName = argument.dungeonRaidName
        /\ result.encounterType = argument.encounterType
        /\ result.mechanicType = argument.mechanicType
        /\ result.difficulty = argument.difficulty
        /\ result.encounterOrder = Undefined
        /\ argument.contestModeOnly # "undefined" =>
                result.contestModeSpecific = argument.contestModeOnly

(***************************************************************************)
(* Properties of retrieveRelevantMechanics on the further queries          *)
(***************************************************************************)
\* the highest order among a set of orders, 0 when none is set
MaxOrderOf(orders) == SetMax({0} \cup { o \in orders : o # Undefined })

\* C14: for a final-encounter or last-encounter query (no final/last boss
\* phrase) targetEncounterOrder is the highest order over the encounters of
\* all types: of the stored mechanics of the collection when a collection
\* filter is given, of the search results otherwise; so both phrases resolve
\* alike on the same data.
C14_FinalEncounterAllTypes ==
    ( /\ pc = "done"
      /\ encounterPosition.position = "final"
      /\ ~encounterPosition.isBossQuery ) =>
        targetEncounterOrder =
            IF options.dungeonRaidName # NoFilter
            THEN MaxOrderOf({ x.encounter.order : x \in StoredOf(options.dungeonRaidName) })
            ELSE MaxOrderOf({ ResolvedOrder(searchResults[i]) : i \in DOMAIN searchResults })

\* C15: once a mechanic is registered and indexed, a retrieve call whose query
\* is its name and whose search answer ranks it first returns it among its
\* results, whatever else is indexed.
C15_NamedMechanicReturned ==
    \A m \in MechIds :
        ( /\ pc = "done"
          /\ query = Corpus[m].mechanic.name
          /\ storeHas(mechanicStore, m)
          /\ Len(providerResults) > 0
          /\ providerResults[1].id = m ) =>
            \E i \in DOMAIN returned : returned[i].id = m

(***************************************************************************)
(* registerMechanic under any sequence of calls                            *)
(***************************************************************************)
\* a later version of a mechanic: same id, edited name, moved to another
\* encounter
Revised(t) ==
    Triple(t.mechanic.id, t.mechanic.name \o <<" ","v","2">>, "duality-vault", "encounter", 6,
           t.dungeonRaid.name)

\* what callers register: three mechanics, each in two versions
RegisterInputs == { Corpus[i] : i \in 1..3 } \cup { Revised(Corpus[i]) : i \in 1..3 }

Register ==
    /\ Len(registered) < MaxRegistrations
    /\ \E t \in RegisterInputs :
        /\ mechanicStore' = registerMechanic(mechanicStore, t)
        /\ registered' = Append(registered, t)
    /\ UNCHANGED << storeLoaded, pc, callVars, embedCalls, searchCalls, outVars, error,
                    harnessVars, loadVars, limitVars, handlerVars >>

SpecRegister == Init /\ [][Register]_vars

\* C16: after any sequence of registerMechanic calls the store holds exactly
\* one entry per mechanic id ever registered (none is removed), and that
\* entry is the triple of the most recent registration for the id.
C16_OneEntryPerIdLastWins ==
    /\ \A i, j \in DOMAIN mechanicStore :
        mechanicStore[i].mechanic.id = mechanicStore[j].mechanic.id => i = j
    /\ { mechanicStore[i].mechanic.id : i \in DOMAIN mechanicStore }
            = { registered[k].mechanic.id : k \in DOMAIN registered }
    /\ \A i \in DOMAIN mechanicStore :
        \E k \in DOMAIN registered :
            /\ registered[k] = mechanicStore[i]
            /\ \A l \in DOMAIN registered :
                registered[l].mechanic.id = mechanicStore[i].mechanic.id => l <= k

\* an id registered, another id registered, the first id registered again in
\* its later version: two entries, the first one replaced
C16_ReRegistered ==
    /\ Len(registered) = 3
    /\ registered[1] = Corpus[1]
    /\ registered[2] = Corpus[2]
    /\ registered[3] = Revised(Corpus[1])
    /\ Len(mechanicStore) = 2
    /\ mechanicStore[1] = Revised(Corpus[1])

(***************************************************************************)
(* loadMechanicStore with several callers.  A call tests the flag, awaits  *)
(* three dynamic imports (no shared state is read or written across them,  *)
(* so they are one suspension here) and then runs to its end without       *)
(* another await: readdirSync, the loop over the documents, the flag.      *)
(***************************************************************************)
\* what ingest requests may have registered before the first load call
StoresAtStart == { <<>>, << Corpus[4] >>, << Revised(Corpus[1]), Corpus[4] >> }

InitLoad ==
    /\ mechanicStore \in StoresAtStart
    /\ storeAtStart = mechanicStore
    /\ storeLoaded = FALSE
    /\ loaders = [c \in Callers |-> "idle"]
    /\ registrations = [c \in Callers |-> 0]
    /\ validFiles \in SUBSET DataFiles
    /\ dataDirReadable \in BOOLEAN
    /\ RetrievalAtRest
    /\ HarnessAtRest
    /\ registered = <<>>
    /\ LimiterAtRest
    /\ HandlersAtRest

\* the flag test, and the return or the first await
LoadCall(c) ==
    /\ loaders[c] = "idle"
    /\ loaders' = [loaders EXCEPT ![c] = IF storeLoaded THEN "skipped" ELSE "importing"]
    /\ UNCHANGED << mechanicStore, storeLoaded, registrations, validFiles, dataDirReadable,
                    storeAtStart, pc, callVars, embedCalls, searchCalls, outVars, error,
                    harnessVars, registered, limitVars, handlerVars >>

\* the rest of the try block: readdirSync throws into the outer catch, or the
\* loop runs and the flag is set
LoadPopulate(c) ==
    /\ loaders[c] = "importing"
    /\ loaders' = [loaders EXCEPT ![c] = "returned"]
    /\ IF dataDirReadable
       THEN \E done \in { loadFiles([store |-> mechanicStore, count |-> 0, completed |-> TRUE],
                                      DataFileList, validFiles) } :
                /\ mechanicStore' = done.store
                /\ registrations' = [registrations EXCEPT ![c] = done.count]
                /\ storeLoaded' = (storeLoaded \/ done.completed)
       ELSE UNCHANGED << mechanicStore, registrations, storeLoaded >>
    /\ UNCHANGED << validFiles, dataDirReadable, storeAtStart, pc, callVars, embedCalls,
                    searchCalls, outVars, error, harnessVars, registered, limitVars,
                    handlerVars >>

NextLoad == \E c \in Callers : LoadCall(c) \/ LoadPopulate(c)

SpecLoad == InitLoad /\ [][NextLoad]_vars

\* the callers whose call went through the loop
Populated == { c \in Callers : loaders[c] = "returned" }

\* the store after one load from the store the callers started on
AfterSingleLoad ==
    loadFiles([store |-> storeAtStart, count |-> 0, completed |-> TRUE],
              DataFileList, validFiles).store

\* C17: when the calls that found the flag unset have all completed (the
\* directory being readable), the flag is set and the store is what a single
\* load leaves, however many of them populated it and in whatever order; a
\* call made once the flag is set registers nothing.
C17_ConcurrentLoadsAsOne ==
    /\ ( /\ dataDirReadable
         /\ Populated # {}
         /\ \A c \in Callers : loaders[c] # "importing" ) =>
            /\ storeLoaded
            /\ mechanicStore = AfterSingleLoad
    /\ \A c \in Callers :
        loaders[c] = "skipped" => (storeLoaded /\ registrations[c] = 0)

\* two calls both found the flag unset and both populated the store, which
\* held an older version of a mechanic; a third call came later and returned
\* at the flag test
C17_TwoLoadsThenSkip ==
    /\ Cardinality(Populated) = 2
    /\ \A c \in Populated : registrations[c] = 5
    /\ \E c \in Callers : loaders[c] = "skipped"
    /\ storeAtStart = << Revised(Corpus[1]), Corpus[4] >>
    /\ storeLoaded

\* C18: a document that fails to parse or validate is skipped: the load that
\* ran the loop returns normally with the flag set and with every mechanic
\* of every valid document registered as the document has it, while a failed
\* document registers nothing.
C18_InvalidDocumentSkipped ==
    \A c \in Populated :
        dataDirReadable =>
            /\ storeLoaded
            /\ \A f \in validFiles : \A id \in f :
                storeHas(mechanicStore, id) /\ storeGet(mechanicStore, id) = Corpus[id]
            /\ \A f \in DataFiles \ validFiles : \A id \in f :
                IF storeHas(storeAtStart, id)
                THEN storeGet(mechanicStore, id) = storeGet(storeAtStart, id)
                ELSE ~storeHas(mechanicStore, id)
            /\ registrations[c] = Cardinality(UNION validFiles)

\* the first document failed and the second, valid one was registered
C18_SecondDocumentLoaded ==
    /\ Populated # {}
    /\ validFiles = { {5} }
    /\ storeLoaded
    /\ storeHas(mechanicStore, 5)
    /\ storeHas(mechanicStore, 1)
    /\ storeGet(mechanicStore, 1) = Revised(Corpus[1])

(***************************************************************************)
(* buildContext.  The text is kept as the list contextParts before the     *)
(* join, each part a label with its text.  A block has its separator, its  *)
(* collection, its mechanic line (marked in the flow section) and its      *)
(* score line; the lines for encounter name, type, description and the     *)
(* optional fields lie between them and are left out.                      *)
(***************************************************************************)
Part(label, text) == [label |-> label, text |-> text]

\* the placeholder for an empty list (one part) or the two preamble lines
opening(results) ==
    IF Len(results) = 0
    THEN << Part("placeholder", "No relevant mechanics found.") >>
    ELSE << Part("preamble", "Relevant Destiny 2 mechanics from historical raids and dungeons:"),
            Part("preamble", "MOST IMPORTANT: Encounter Flow mechanics are listed first") >>

FlowHeader == Part("header", "=== ENCOUNTER FLOW (MOST IMPORTANT) ===")

OtherHeader == Part("header", "=== OTHER MECHANICS ===")

FlowMark == <<" ","F","L","O","W">>

\* (score * 100).toFixed(1) of a score in hundredths: the percentage and its
\* one decimal
toFixed1(score) == [percent |-> score, tenths |-> 0]

\* the parts pushed for one result
block(r, marked) ==
    << Part("separator", "---"),
       Part("Dungeon/Raid", r.dungeonRaid.name),
       Part("Mechanic", IF marked THEN r.mechanic.name \o FlowMark ELSE r.mechanic.name),
       Part("Similarity Score", toFixed1(r.score)) >>

RECURSIVE blocks(_, _)
blocks(rs, marked) ==
    IF rs = <<>> THEN <<>> ELSE block(Head(rs), marked) \o blocks(Tail(rs), marked)

\* mutant: the results are listed in input order under the header of the
\* first one
buildContextInputOrder(results) ==
    IF Len(results) = 0 THEN opening(results)
    ELSE opening(results)
         \o << IF isFlow(results[1].mechanic.name) THEN FlowHeader ELSE OtherHeader >>
         \o blocks(results, isFlow(results[1].mechanic.name))

buildContext(results) ==
    IF Len(results) = 0 THEN opening(results)
    ELSE LET flow  == SelectSeq(results, LAMBDA r : isFlow(r.mechanic.name))
             other == SelectSeq(results, LAMBDA r : ~isFlow(r.mechanic.name))
         IN  opening(results)
             \o (IF Len(flow) > 0 THEN << FlowHeader >> \o blocks(flow, TRUE) ELSE <<>>)
             \o (IF Len(other) > 0 THEN << OtherHeader >> \o blocks(other, FALSE) ELSE <<>>)

\* a search result for a mechanic of the corpus; the score tells the results
\* apart
ResultOf(id) ==
    [ id          |-> id,
      score       |-> 10 * id,
      mechanic    |-> Corpus[id].mechanic,
      encounter   |-> Corpus[id].encounter,
      dungeonRaid |-> Corpus[id].dungeonRaid ]

\* the result lists: any results in any order, repeats included
ResultLists == UNION { [1..n -> { ResultOf(id) : id \in MechIds }] : n \in 0..MaxResults }

CallBuildContext ==
    /\ ~called
    /\ result' = buildContext(argument)
    /\ called' = TRUE
    /\ UNCHANGED << mechanicStore, storeLoaded, pc, callVars, embedCalls, searchCalls,
                    outVars, error, argument, loadVars, registered, limitVars, handlerVars >>

SpecContext == InitCall(ResultLists) /\ [][CallBuildContext]_vars

\* where a part occurs in the context
At(part) == { i \in DOMAIN result : result[i] = part }

\* the texts of the parts with a label between two places, in order
Lines(label, lo, hi) ==
    LET sel == SelectSeq(SubSeq(result, lo + 1, hi - 1), LAMBDA p : p.label = label)
    IN  [k \in DOMAIN sel |-> sel[k].text]

\* C19: for a non-empty result list the context lists every input result
\* exactly once: the flow-named results under the ENCOUNTER FLOW header, the
\* others under the OTHER MECHANICS header, the flow section first, each
\* section in input order, and a header only for a non-empty section.
C19_EveryResultOnceInItsSection ==
    (called /\ Len(argument) > 0) =>
        LET flowIn   == SelectSeq(argument, LAMBDA r : isEncounterFlowMechanic(r.mechanic.name))
            otherIn  == SelectSeq(argument, LAMBDA r : ~isEncounterFlowMechanic(r.mechanic.name))
            end      == Len(result) + 1
            flowAt   == IF At(FlowHeader) = {} THEN end ELSE SetMin(At(FlowHeader))
            otherAt  == IF At(OtherHeader) = {} THEN end ELSE SetMin(At(OtherHeader))
            flowEnd  == otherAt
        IN  /\ Cardinality(At(FlowHeader)) = (IF Len(flowIn) > 0 THEN 1 ELSE 0)
            /\ Cardinality(At(OtherHeader)) = (IF Len(otherIn) > 0 THEN 1 ELSE 0)
            /\ (At(FlowHeader) # {} /\ At(OtherHeader) # {}) => flowAt < otherAt
            /\ Len(Lines("Mechanic", 0, end)) = Len(argument)
            /\ Lines("Mechanic", flowAt, flowEnd)
                    = [k \in DOMAIN flowIn |-> flowIn[k].mechanic.name \o FlowMark]
            /\ Lines("Similarity Score", flowAt, flowEnd)
                    = [k \in DOMAIN flowIn |-> toFixed1(flowIn[k].score)]
            /\ Lines("Mechanic", otherAt, end)
                    = [k \in DOMAIN otherIn |-> otherIn[k].mechanic.name]
            /\ Lines("Similarity Score", otherAt, end)
                    = [k \in DOMAIN otherIn |-> toFixed1(otherIn[k].score)]

\* an other mechanic, a flow mechanic and a second other mechanic, in that
\* order: the flow mechanic is listed first, the others keep their order
C19_FlowBetweenOthers ==
    /\ called
    /\ argument = << ResultOf(4), ResultOf(3), ResultOf(2) >>
    /\ Lines("Mechanic", 0, Len(result) + 1)
            = << NameBossStrategy \o FlowMark, NameVaultSymbols, NameBellPuzzle >>

(***************************************************************************)
(* checkRateLimit (src/lib/rate-limit.ts).  The Map is a function whose    *)
(* domain is the set of clients that have a record.  Time runs in ticks;   *)
(* windowMs is a number of ticks.                                          *)
(***************************************************************************)
\* Map.prototype.set
mapSet(map, key, value) ==
    [ k \in DOMAIN map \cup {key} |-> IF k = key THEN value ELSE map[k] ]

\* Map.prototype.delete
mapDelete(map, key) == [ k \in DOMAIN map \ {key} |-> map[k] ]

\* mutant: the limit test lets one more call through
overLimitOffByOne(count, maxRequests) == count > maxRequests

\* record.count >= options.maxRequests
overLimit(count, maxRequests) == count >= maxRequests

\* one call: the store it leaves and what it returns; created tells whether
\* the call made a new record, expired whether it found and deleted a record
\* whose resetTime had passed
checkRateLimit(map, identifier, maxRequests, windowMs, time) ==
    LET expired == identifier \in DOMAIN map /\ map[identifier].resetTime < time
        cleaned == IF expired THEN mapDelete(map, identifier) ELSE map
    IN  IF identifier \notin DOMAIN cleaned
        THEN [ map     |-> mapSet(cleaned, identifier, [count |-> 1, resetTime |-> time + windowMs]),
               allowed |-> TRUE, remaining |-> maxRequests - 1, resetAt |-> time + windowMs,
               created |-> TRUE, expired |-> expired ]
        ELSE IF overLimit(cleaned[identifier].count, maxRequests)
        THEN [ map     |-> cleaned,
               allowed |-> FALSE, remaining |-> 0, resetAt |-> cleaned[identifier].resetTime,
               created |-> FALSE, expired |-> expired ]
        ELSE [ map     |-> mapSet(cleaned, identifier,
                               [count     |-> cleaned[identifier].count + 1,
                                resetTime |-> cleaned[identifier].resetTime]),
               allowed |-> TRUE, remaining |-> maxRequests - (cleaned[identifier].count + 1),
               resetAt |-> cleaned[identifier].resetTime,
               created |-> FALSE, expired |-> expired ]

\* the window lengths callers configure, in ticks
Windows == { 1, 2 }

\* a handler calls checkRateLimit for a client with its own options
CheckRateLimit ==
    /\ \E c \in Clients, maxRequests \in 1..MaxLimit, windowMs \in Windows :
        \E r \in { checkRateLimit(rateLimitStore, c, maxRequests, windowMs, now) } :
            /\ rateLimitStore' = r.map
            /\ limitResult' = [ client |-> c, maxRequests |-> maxRequests, allowed |-> r.allowed,
                                remaining |-> r.remaining, resetAt |-> r.resetAt,
                                created |-> r.created,
                                hadRecord |-> c \in DOMAIN rateLimitStore,
                                pastReset |-> c \in DOMAIN rateLimitStore
                                                /\ now > rateLimitStore[c].resetTime ]
            /\ allowedInWindow' =
                [ allowedInWindow EXCEPT ![c] =
                    [ m \in 1..MaxLimit |->
                        (IF r.created THEN 0 ELSE allowedInWindow[c][m])
                        + (IF r.allowed /\ m = maxRequests THEN 1 ELSE 0) ] ]
    /\ UNCHANGED << now, mechanicStore, storeLoaded, pc, callVars, embedCalls, searchCalls,
                    outVars, error, harnessVars, loadVars, registered, handlerVars >>

\* time passes
Tick ==
    /\ now < MaxTime
    /\ now' = now + 1
    /\ UNCHANGED << rateLimitStore, limitResult, allowedInWindow, mechanicStore, storeLoaded,
                    pc, callVars, embedCalls, searchCalls, outVars, error, harnessVars,
                    loadVars, registered, handlerVars >>

NextLimit == CheckRateLimit \/ Tick

SpecLimit == Init /\ [][NextLimit]_vars

\* C20: for every client and every maxRequests, the calls made with that
\* maxRequests within one window of the client (from the call that creates
\* its record until the time exceeds the record's resetTime) are allowed at
\* most maxRequests times; a denied call reports remaining = 0; and a call
\* starts a new count only when the client had no record or the time had
\* passed the record's resetTime.
C20_AtMostMaxRequestsPerWindow ==
    /\ \A c \in Clients, m \in 1..MaxLimit : allowedInWindow[c][m] <= m
    /\ limitResult # NoCall =>
        /\ ~limitResult.allowed => limitResult.remaining = 0
        /\ limitResult.allowed => limitResult.remaining >= 0
        /\ limitResult.created => (~limitResult.hadRecord \/ limitResult.pastReset)
        /\ (limitResult.hadRecord /\ ~limitResult.pastReset) =>
                rateLimitStore[limitResult.client].count
                    >= allowedInWindow[limitResult.client][limitResult.maxRequests]

\* a client used up maxRequests = 2 and is denied within the window while the
\* other client is still allowed
C20_DeniedInsideWindow ==
    /\ limitResult # NoCall
    /\ ~limitResult.allowed
    /\ limitResult.maxRequests = 2
    /\ allowedInWindow[limitResult.client][2] = 2
    /\ now <= limitResult.resetAt
    /\ \E c \in Clients : c # limitResult.client /\ allowedInWindow[c][2] = 1

(***************************************************************************)
(* Further properties of retrieveRelevantMechanics                         *)
(***************************************************************************)
\* the encounter type the processing loop resolves for a candidate
ResolvedType(c) ==
    IF \E x \in Range(mechanicStore) : x.mechanic.id = c.metadata.mechanicId
    THEN (CHOOSE x \in Range(mechanicStore) :
              x.mechanic.id = c.metadata.mechanicId).encounter.type
    ELSE c.metadata.encounterType

\* C23: for a final-boss query with a collection filter, when the store holds
\* no boss-type encounter with an order for the collection and the provider
\* returns candidates, targetEncounterOrder is the maximum order among the
\* boss-type search results, and the candidates of that order are kept and
\* boosted.
C23_TargetFromResultsOnEmptyStore ==
    ( /\ pc = "done"
      /\ encounterPosition.position = "final"
      /\ encounterPosition.isBossQuery
      /\ options.dungeonRaidName # NoFilter
      /\ BossOrders(options.dungeonRaidName) = {}
      /\ Len(providerResults) > 0 ) =>
        /\ targetEncounterOrder =
                MaxOrderOf({ ResolvedOrder(c) : c \in
                    { x \in Range(providerResults) : ResolvedType(x) = "boss" } })
        /\ \A i \in DOMAIN providerResults :
                ( /\ ResolvedType(providerResults[i]) = "boss"
                  /\ ResolvedOrder(providerResults[i]) = targetEncounterOrder ) =>
                    \E k \in DOMAIN Kept :
                        /\ Kept[k].id = providerResults[i].id
                        /\ Kept[k].score >= Min(100, providerResults[i].score + 80)

C27_FlagImpliesFinalAndTarget ==
    isFinalBossQuery =>
        /\ encounterPosition.position = "final"
        /\ pc = "done" => targetEncounterOrder # Undefined
        /\ pc = "done" => targetEncounterOrder >= 0

\* a final-encounter query without collection filter: the target comes from
\* the pass over the search results, and the candidate of that order is
\* boosted through the target branch
C27_TargetFromResultsPass ==
    /\ pc = "done"
    /\ isFinalBossQuery
    /\ options.dungeonRaidName = NoFilter
    /\ targetEncounterOrder > 0
    /\ \E i \in DOMAIN providerResults, k \in DOMAIN Kept :
        /\ Kept[k].id = providerResults[i].id
        /\ providerResults[i].score = 10
        /\ Kept[k].encounter.order = targetEncounterOrder
        /\ Kept[k].score >= 90

\* C30: a mechanic registered through the ingestion path keeps its ingested
\* data: a load that runs after the registration does not replace the entry
\* with the version of the same mechanic id found in the source documents.
C30_IngestedEntryKept ==
    \A i \in DOMAIN storeAtStart :
        /\ storeHas(mechanicStore, storeAtStart[i].mechanic.id)
        /\ storeGet(mechanicStore, storeAtStart[i].mechanic.id) = storeAtStart[i]

(***************************************************************************)
(* retrieveRelevantMechanics as a function of the store and of the answer  *)
(* of the provider                                                         *)
(***************************************************************************)
\* the store after a load, and after a load and an ingest
LoadedStore == registerAll(registerAll(<<>>, TriplesOf({1, 2, 3, 6})), TriplesOf({5}))

\* calls with a collection filter and an encounter-type filter; the provider
\* answers with vectors that pass both
FilteredCalls ==
    UNION { [ store   : { <<>>, LoadedStore, registerMechanic(LoadedStore, Corpus[4]) },
              query   : { QueryBellPuzzle },
              options : { o },
              answer  : searchSimilar(o, adjustedTopKOf(o)) ] :
            o \in [ dungeonRaidName : { "Duality" },
                    encounterType   : { NoFilter, "boss", "encounter" },
                    topK            : { Undefined, 1 } ] }

\* mechanics of one encounter order, two of them flow mechanics, with a flow
\* mechanic of another order
TiedMechanics ==
    << Corpus[1],
       Corpus[2],
       Corpus[3],
       Triple(7, NameBossStrategy, "duality-gahlran", "boss", 2, "Duality"),
       Triple(8, NameEncounterFlow, "equilibrium-boss", "boss", 2, "Equilibrium") >>

\* similarity scores from 0 to 1: all of them for an answer of one match, the
\* values around the clamps for longer answers
TiedScores(n) == IF n = 1 THEN 0..100 ELSE { 0, 10, 19, 20, 21, 70, 95, 100 }

\* calls for the second encounter whose answer ranks these mechanics
TiedCalls ==
    [ store   : { <<>>, TiedMechanics },
      query   : { QuerySecondEncounter },
      options : { [dungeonRaidName |-> NoFilter, topK |-> Undefined] },
      answer  : UNION { { r \in [1..n -> { [ id       |-> TiedMechanics[d].mechanic.id,
                                              score    |-> sc,
                                              metadata |-> MetadataOf(TiedMechanics[d]) ] :
                                            d \in DOMAIN TiedMechanics, sc \in TiedScores(n) }] :
                            \A i, j \in 1..n :
                                i < j => r[i].id # r[j].id /\ r[i].score >= r[j].score } :
                      n \in 1..MaxMatches } ]

CallRetrieve ==
    /\ ~called
    /\ result' = retrieveRelevantMechanics(argument.store, argument.query, argument.options,
                                           argument.answer)
    /\ called' = TRUE
    /\ UNCHANGED << mechanicStore, storeLoaded, pc, callVars, embedCalls, searchCalls,
                    outVars, error, argument, loadVars, registered, limitVars, handlerVars >>

SpecRetrieveCall == InitCall(FilteredCalls \cup TiedCalls) /\ [][CallRetrieve]_vars

\* C26: every result returned satisfies every filter the caller supplied
\* (here collection name and encounter type), whether the candidates came
\* from the provider or from the scan of the store used as fallback.
C26_ResultsSatisfyFilters ==
    called =>
        \A i \in DOMAIN result :
            /\ argument.options.dungeonRaidName # NoFilter =>
                    result[i].dungeonRaid.name = argument.options.dungeonRaidName
            /\ get(argument.options, "encounterType", NoFilter) # NoFilter =>
                    result[i].encounter.type = argument.options.encounterType

\* the matches of an answer that are flow mechanics of the target order
BothBoosted ==
    SelectSeq(argument.answer, LAMBDA c :
        /\ isEncounterFlowMechanic(c.metadata.mechanicName)
        /\ c.metadata.encounterOrder = 2)

\* C28: in a call for the second encounter every candidate that is of the
\* target order and a flow mechanic ends at exactly 1.00, whatever its
\* provider score in [0, 1], and these candidates appear in the output in the
\* order the provider returned them.
C28_BothBoostsTieInInputOrder ==
    (called /\ argument.query = QuerySecondEncounter) =>
        LET ids == { BothBoosted[k].id : k \in DOMAIN BothBoosted }
            out == SelectSeq(result, LAMBDA r : r.id \in ids)
        IN  /\ Len(out) = Len(BothBoosted)
            /\ \A k \in DOMAIN out :
                    out[k].id = BothBoosted[k].id /\ out[k].score = 100

\* two flow mechanics of the second encounter ranked at 0.95 and 0.00: both
\* end at 1.00, still in that order, the stored data in use
C28_TiedAtOne ==
    /\ called
    /\ argument.query = QuerySecondEncounter
    /\ argument.store # <<>>
    /\ Len(BothBoosted) = 2
    /\ BothBoosted[1].score = 95
    /\ BothBoosted[2].score = 0
    /\ BothBoosted[1].id > BothBoosted[2].id
    /\ Len(result) = 2
    /\ result[1].id = BothBoosted[1].id
    /\ result[1].score = 100
    /\ result[2].score = 100

(***************************************************************************)
(* The chat and search handler (src/app/api/chat/route.ts) with the       *)
(* cache (lib/cache.ts) and the rate limiter, one request after the other. *)
(* A handler runs from one                                                 *)
(* await to the next in one step: the rate-limit check on arrival, the     *)
(* parse of the body with the cache lookup, the retrieval, the events of   *)
(* the generation stream.  The awaits inside retrieveRelevantMechanics are *)
(* followed in Spec; here the call is one step, the handler sharing       *)
(* nothing with it but the Mechanic Store, which only the load writes.     *)
(* The context built by buildContext goes to the generation provider and   *)
(* is not kept.  The variable response holds what the last step of a       *)
(* handler sent, NoResponse when it sent nothing.                          *)
(***************************************************************************)
Routes == { "chat", "search" }

\* the settings of the handler in the units of the model: maxRequests is 10
\* (chat) and 20 (search) per windowMs of one minute, a cache entry lives for
\* five minutes; here a window is one tick, an entry lives for two
Settings ==
    [ chat   |-> [maxRequests |-> 1, windowMs |-> 1],
      search |-> [maxRequests |-> 2, windowMs |-> 1],
      ttlMs  |-> 2 ]

\* getClientIdentifier: the requests come from one client
Requester == "10.0.0.1"

\* the bodies of the requests: for search a query with a collection filter,
\* with or without limit, for chat the query alone, for both a body with an
\* empty query; the messages of a chat body are well formed
Bodies(route) ==
    ( IF route = "search"
      THEN [ query   : { QueryBellPuzzle },
             filters : { [present |-> TRUE, dungeonRaidName |-> "Duality"] },
             limit   : { Undefined, 1 } ]
      ELSE { [ query |-> QueryBellPuzzle, filters |-> IdleHandler.body.filters,
               limit |-> Undefined ] } )
    \cup { IdleHandler.body }

\* mutant: the schema accepts every body
parseAcceptsAll(route, body) == TRUE

\* ChatRequestSchema.parse / SearchRequestSchema.parse: whether the body passes
parse(route, body) ==
    /\ Len(body.query) >= 1
    /\ Len(body.query) <= (IF route = "chat" THEN 1000 ELSE 500)
    /\ route = "search" => (body.limit = Undefined \/ (body.limit >= 1 /\ body.limit <= 50))

\* `search:${query}:${filters ? JSON.stringify(filters) : ''}`, the JSON text
\* as its tokens
getSearchCacheKey(q, filters) ==
    [ prefix    |-> "search",
      query     |-> q,
      filterStr |-> IF filters.present
                    THEN << "{" >>
                         \o (IF filters.dungeonRaidName # NoFilter
                             THEN << "dungeonRaidName", filters.dungeonRaidName >>
                             ELSE << >>)
                         \o << "}" >>
                    ELSE << >> ]

\* mutant: an entry is dropped at its expiry time already
expiredAtExpiry(entry, time) == entry.expiresAt <= time

\* entry.expiresAt < Date.now()
expired(entry, time) == entry.expiresAt < time

\* what the cache holds for a key at a time: an entry set at most ttlMs
\* before (set writes expiresAt as its time plus ttlMs), one set longer ago,
\* or none
entrySeen(map, key, time) ==
    IF key \notin DOMAIN map THEN IdleHandler.seen
    ELSE IF time - (map[key].expiresAt - Settings.ttlMs) <= Settings.ttlMs
    THEN [ live |-> TRUE, stale |-> FALSE, data |-> map[key].data ]
    ELSE [ live |-> FALSE, stale |-> TRUE, data |-> <<>> ]

\* get: the data of a live entry; an expired entry is deleted
cacheGet(map, key, time) ==
    IF key \notin DOMAIN map THEN [map |-> map, hit |-> FALSE, data |-> <<>>]
    ELSE IF expired(map[key], time)
    THEN [map |-> mapDelete(map, key), hit |-> FALSE, data |-> <<>>]
    ELSE [map |-> map, hit |-> TRUE, data |-> map[key].data]

\* set
cacheSet(map, key, data, ttlMs, time) ==
    mapSet(map, key, [data |-> data, expiresAt |-> time + ttlMs])

\* the options a handler passes to retrieveRelevantMechanics
handlerOptions(route, body) ==
    IF route = "search"
    THEN [ dungeonRaidName |-> body.filters.dungeonRaidName,
           topK            |-> IF Truthy(body.limit) THEN body.limit ELSE 10 ]
    ELSE [ dungeonRaidName |-> IF body.filters.dungeonRaidName = NoFilter
                                  /\ extractDungeonName(body.query) # NoName
                               THEN extractDungeonName(body.query)
                               ELSE body.filters.dungeonRaidName,
           topK            |-> 5 ]

\* handlerOptions per route and body that passes the schema, evaluated once
OptionsOf ==
    [ r \in Routes |-> [ b \in { x \in Bodies(r) : parse(r, x) } |-> handlerOptions(r, b) ] ]

\* the answers of a provider whose index ranks mechanic 1 first, mechanic 2
\* second and so on for the query and holds as many matches as are asked
\* for, per options value, evaluated once
IndexedAnswers ==
    [ o \in UNION { { OptionsOf[r][b] : b \in DOMAIN OptionsOf[r] } : r \in Routes } |->
        { a \in searchSimilar(o, adjustedTopKOf(o)) :
            /\ Len(a) = Min(adjustedTopKOf(o), MaxMatches)
            /\ \A i \in DOMAIN a : a[i].score = 95 /\ a[i].id = i } ]

\* retrieveRelevantMechanics on the empty and on the loaded store, per route
\* and body that passes the schema and per answer of the provider, evaluated
\* once
Retrieved ==
    [ store \in { <<>>, LoadedStore } |->
        [ r \in Routes |->
            [ b \in DOMAIN OptionsOf[r] |->
                [ answer \in IndexedAnswers[OptionsOf[r][b]] |->
                    retrieveRelevantMechanics(store, b.query, OptionsOf[r][b], answer) ] ] ] ]

\* what the k-th event of the generation provider's stream may be: the k-th
\* piece of the answer's text, or an event without text
Events(k) ==
    { [type |-> "content_block_delta", text |-> << "text", k >>],
      [type |-> "message_delta", text |-> << >>] }

\* streamResponse yields the text of a text delta and skips any other event
yields(event) == event.type = "content_block_delta"

\* TextEncoder.encode
encode(text) == [utf8 |-> text]

\* the chunk sent when the generation throws, after two line breaks: the
\* message of the error streamResponse rethrows, in brackets
ErrorMarker == << "[Error: ", "Failed to stream response", "]" >>

\* mutant: a chunk is put in front of the chunks already queued
enqueueFront(stream, chunk) == [stream EXCEPT !.queue = << chunk >> \o @]

\* controller.enqueue
enqueue(stream, chunk) == [stream EXCEPT !.queue = Append(@, chunk)]

\* controller.close
close(stream) == [stream EXCEPT !.closed = @ + 1]

\* what the handler leave alone
outsideHandlers ==
    << pc, callVars, embedCalls, searchCalls, outVars, error, harnessVars, loadVars,
       registered, limitResult, allowedInWindow >>

\* a request arrives: the rate-limit check, then the 429 or the await of the
\* body
Arrive ==
    /\ handler.pc = "idle"
    /\ \E route \in Routes :
        \E body \in Bodies(route) :
        \E rateLimit \in { checkRateLimit(rateLimitStore, Requester, Settings[route].maxRequests,
                                           Settings[route].windowMs, now) } :
        \E me \in { [IdleHandler EXCEPT !.pc = "body", !.route = route, !.body = body] } :
            /\ rateLimitStore' = rateLimit.map
            /\ IF rateLimit.allowed
               THEN /\ handler' = me
                    /\ response' = NoResponse
               ELSE /\ response' = Response(me, FALSE, 429, <<>>, FALSE, now, FALSE)
                    /\ UNCHANGED handler
    /\ UNCHANGED << cache, now, mechanicStore, storeLoaded >>
    /\ UNCHANGED outsideHandlers

\* the body has arrived: the schema, then (search) the cache lookup
Parse ==
    /\ handler.pc = "body"
    /\ \E me \in { handler } :
        IF ~parse(me.route, me.body)
        THEN /\ response' = Response(me, TRUE, 400, <<>>, FALSE, now, FALSE)
             /\ handler' = IdleHandler
             /\ UNCHANGED cache
        ELSE IF me.route = "search"
        THEN \E cacheKey \in { getSearchCacheKey(me.body.query, me.body.filters) } :
             \E cached \in { cacheGet(cache, cacheKey, now) } :
             \E looked \in { [me EXCEPT !.seen = entrySeen(cache, cacheKey, now)] } :
                /\ cache' = cached.map
                /\ IF cached.hit
                   THEN /\ response' = Response(looked, TRUE, 200, cached.data, TRUE, now, FALSE)
                        /\ handler' = IdleHandler
                   ELSE /\ handler' = [looked EXCEPT !.pc = "retrieving"]
                        /\ response' = NoResponse
        ELSE /\ handler' = [me EXCEPT !.pc = "retrieving"]
             /\ response' = NoResponse
             /\ UNCHANGED cache
    /\ UNCHANGED << rateLimitStore, now, mechanicStore, storeLoaded >>
    /\ UNCHANGED outsideHandlers

\* the retrieval: the load of the store (chat calls it itself and again
\* through retrieveRelevantMechanics), the embedding, the search; an error of
\* a provider ends in the 500; search stores and answers, chat builds the
\* stream, whose start calls streamResponse
Retrieve ==
    /\ handler.pc = "retrieving"
    /\ \E me \in { handler } :
       \E o \in { OptionsOf[me.route][me.body] } :
       \E ld \in { loadMechanicStore(mechanicStore, storeLoaded, dataDirReadable) } :
       \E loads \in { IF me.route = "chat" THEN 2 ELSE 1 } :
        /\ mechanicStore' = ld.store
        /\ storeLoaded' = ld.loaded
        /\ \/ \E searches \in {0, 1} :
                /\ response' = Response([me EXCEPT !.calls = [ loads |-> loads, embeds |-> 1,
                                                                searches |-> searches,
                                                                generations |-> 0 ]],
                                        TRUE, 500, <<>>, FALSE, now, FALSE)
                /\ handler' = IdleHandler
                /\ UNCHANGED cache
           \/ \E answer \in IndexedAnswers[o] :
              \E results \in { Retrieved[ld.store][me.route][me.body][answer] } :
              \E done \in { [me EXCEPT !.calls = [ loads |-> loads, embeds |-> 1, searches |-> 1,
                                                   generations |-> 0 ]] } :
                IF me.route = "search"
                THEN /\ cache' = cacheSet(cache, getSearchCacheKey(me.body.query, me.body.filters),
                                          results, Settings.ttlMs, now)
                     /\ response' = Response(done, TRUE, 200, results, FALSE, now, FALSE)
                     /\ handler' = IdleHandler
                ELSE /\ handler' = [done EXCEPT !.pc = "streaming", !.calls.generations = 1]
                     /\ response' = NoResponse
                     /\ UNCHANGED cache
    /\ UNCHANGED << rateLimitStore, now >>
    /\ UNCHANGED outsideHandlers

\* the generation provider streams an event: a text delta is yielded and
\* enqueued before the next event is awaited
StreamEvent ==
    /\ handler.pc = "streaming"
    /\ handler.events < MaxEvents
    /\ \E me \in { handler } :
       \E event \in Events(me.events + 1) :
        handler' = [me EXCEPT !.events   = me.events + 1,
                       !.produced = IF yields(event) THEN Append(me.produced, event.text)
                                    ELSE me.produced,
                       !.stream   = IF yields(event) THEN enqueue(me.stream, encode(event.text))
                                    ELSE me.stream]
    /\ response' = NoResponse
    /\ UNCHANGED << cache, rateLimitStore, now, mechanicStore, storeLoaded >>
    /\ UNCHANGED outsideHandlers

\* the generation ends: the stream is closed; or it throws: the error marker
\* is enqueued and the stream is closed
StreamEnd ==
    /\ handler.pc = "streaming"
    /\ \E me \in { handler }, failed \in BOOLEAN :
        /\ response' = Response(
                [me EXCEPT !.stream = IF failed
                                      THEN close(enqueue(me.stream, encode(ErrorMarker)))
                                      ELSE close(me.stream)],
                TRUE, 200, <<>>, FALSE, now, failed)
        /\ handler' = IdleHandler
    /\ UNCHANGED << cache, rateLimitStore, now, mechanicStore, storeLoaded >>
    /\ UNCHANGED outsideHandlers

NextHandlers ==
    \/ Tick
    \/ Arrive
    \/ Parse
    \/ Retrieve
    \/ StreamEvent
    \/ StreamEnd

SpecHandlers == Init /\ [][NextHandlers]_vars

\* C21: the handlers check the rate limit, then the schema, then retrieve: a
\* request answered 429 (denied by the limiter) or 400 (an empty query) has
\* caused no store load, no embedding call, no similarity search and no
\* generation call and written nothing to a stream; only a request that
\* passed both reaches the retrieval or a stream
C21_RejectedBeforeRetrieval ==
    /\ handler.pc \in {"retrieving", "streaming"} => Len(handler.body.query) > 0
    /\ response.status = 429 <=> (response # NoResponse /\ ~response.allowed)
    /\ response.status = 400 <=> (response.allowed /\ Len(response.body.query) = 0)
    /\ response.status \in {429, 400} =>
        /\ response.calls = IdleHandler.calls
        /\ response.stream = IdleHandler.stream
    /\ response.calls # IdleHandler.calls =>
        response.allowed /\ Len(response.body.query) > 0

\* witness of C21: a chat request with an empty query is answered 400 without
\* any call, the store having been loaded by an earlier request
C21_RejectedWithoutCalls ==
    /\ response.status = 400
    /\ response.route = "chat"
    /\ response.calls = IdleHandler.calls
    /\ storeLoaded

\* C22: a search request that passes the limiter and the schema is answered
\* cached = true exactly when the cache holds an entry for its query and
\* filters that was set at most the time to live before, then with the data
\* of that entry and without any retrieval call; otherwise it retrieves, is
\* answered cached = false and leaves its results in the cache for the time
\* to live
C22_CachedWithinTtl ==
    /\ (handler.pc = "retrieving" /\ handler.route = "search") => ~handler.seen.live
    /\ (response.route = "search" /\ response.status = 200) =>
        /\ response.cached <=> response.seen.live
        /\ response.cached =>
            /\ response.results = response.seen.data
            /\ response.calls = IdleHandler.calls
        /\ ~response.cached =>
            /\ response.calls.embeds = 1
            /\ response.calls.searches = 1
            /\ \E cacheKey \in { getSearchCacheKey(response.body.query, response.body.filters) } :
                /\ cacheKey \in DOMAIN cache
                /\ cache[cacheKey] = [ data      |-> response.results,
                                       expiresAt |-> response.at + Settings.ttlMs ]

\* witness of C22: a search request finds an entry past its time to live,
\* retrieves and is answered cached = false
C22_RetrievedAfterExpiry ==
    /\ response.route = "search"
    /\ response.status = 200
    /\ ~response.cached
    /\ response.seen.stale
    /\ response.calls.searches = 1

\* C25: while the generation streams, the response stream holds the chunks
\* produced so far, encoded, in the order produced, and is open; when the
\* chat handler is done the stream has been closed once and holds all the
\* chunks produced, followed by the error marker if the generation failed
C25_ChunksInOrderClosedOnce ==
    /\ handler.pc = "streaming" =>
        /\ handler.stream.closed = 0
        /\ handler.stream.queue = [i \in DOMAIN handler.produced |-> encode(handler.produced[i])]
    /\ (response.route = "chat" /\ response.status = 200) =>
        /\ response.stream.closed = 1
        /\ response.stream.queue =
                [i \in DOMAIN response.produced |-> encode(response.produced[i])]
                \o (IF response.failed THEN << encode(ErrorMarker) >> ELSE << >>)

\* witness of C25: the generation fails after the most chunks followed were
\* sent
C25_FailedAfterChunks ==
    /\ response.route = "chat"
    /\ response.status = 200
    /\ response.failed
    /\ Len(response.produced) = MaxEvents
    /\ Len(response.stream.queue) = MaxEvents + 1

\* C29: the response to a search request holds at most as many results as
\* its limit, 10 when it has none
C29_AtMostLimitResults ==
    (response.route = "search" /\ response.status = 200) =>
        Len(response.results) <= (IF response.body.limit = Undefined THEN 10
                                  ELSE response.body.limit)

=============================================================================
